---- MODULE Spec2Model ----
(***************************************************************************)
(* A model of the subdivision-surface to mesh pipeline of                  *)
(* source/blender/blenkernel/intern/subdiv_mesh.cc and of the tangent      *)
(* space functions of source/blender/blenkernel/intern/mesh_tangent.cc.    *)
(*                                                                         *)
(* Arrays keep the 0-based indices of the source: an array is a function   *)
(* over 0..n-1.  Pointers are the index they point at, NULL is the string  *)
(* "NULL".  Float values are modelled as exact rationals [num, den].       *)
(***************************************************************************)
EXTENDS Integers, Sequences, FiniteSets, TLC

NULL == "NULL"

\* An array literal: the sequence s as a function over 0..Len(s)-1.
Arr(s) == [i \in 0..(Len(s) - 1) |-> s[i + 1]]

ArrLen(a) == Cardinality(DOMAIN a)

(***************************************************************************)
(* Coarse meshes.  A mesh is totvert, edges (v1, v2), polys (loopstart,    *)
(* totloop) and loops (v, e); BKE_mesh_verts/edges/polys/loops of the      *)
(* source return these arrays.                                             *)
(***************************************************************************)

\* No polygon at all: two vertices joined by one loose edge.
MeshEmpty ==
  [totvert |-> 2,
   edges |-> Arr(<<[v1 |-> 0, v2 |-> 1]>>),
   polys |-> Arr(<<>>),
   loops |-> Arr(<<>>)]

\*  3--4--5
\*  |  |  |     two quads sharing the edge (1, 4)
\*  0--1--2
MeshTwoQuads ==
  [totvert |-> 6,
   edges |-> Arr(<<[v1 |-> 0, v2 |-> 1], [v1 |-> 1, v2 |-> 4], [v1 |-> 4, v2 |-> 3],
                   [v1 |-> 3, v2 |-> 0], [v1 |-> 1, v2 |-> 2], [v1 |-> 2, v2 |-> 5],
                   [v1 |-> 5, v2 |-> 4]>>),
   polys |-> Arr(<<[loopstart |-> 0, totloop |-> 4], [loopstart |-> 4, totloop |-> 4]>>),
   loops |-> Arr(<<[v |-> 0, e |-> 0], [v |-> 1, e |-> 1], [v |-> 4, e |-> 2], [v |-> 3, e |-> 3],
                   [v |-> 1, e |-> 4], [v |-> 2, e |-> 5], [v |-> 5, e |-> 6], [v |-> 4, e |-> 1]>>)]

\* A quad (0 1 2 3), a triangle (1 4 2) on its edge (1, 2) and a pentagon
\* (2 4 5 6 3) on the edges (4, 2) and (2, 3).
MeshQuadTriPent ==
  [totvert |-> 7,
   edges |-> Arr(<<[v1 |-> 0, v2 |-> 1], [v1 |-> 1, v2 |-> 2], [v1 |-> 2, v2 |-> 3],
                   [v1 |-> 3, v2 |-> 0], [v1 |-> 1, v2 |-> 4], [v1 |-> 4, v2 |-> 2],
                   [v1 |-> 4, v2 |-> 5], [v1 |-> 5, v2 |-> 6], [v1 |-> 6, v2 |-> 3]>>),
   polys |-> Arr(<<[loopstart |-> 0, totloop |-> 4], [loopstart |-> 4, totloop |-> 3],
                   [loopstart |-> 7, totloop |-> 5]>>),
   loops |-> Arr(<<[v |-> 0, e |-> 0], [v |-> 1, e |-> 1], [v |-> 2, e |-> 2], [v |-> 3, e |-> 3],
                   [v |-> 1, e |-> 4], [v |-> 4, e |-> 5], [v |-> 2, e |-> 1],
                   [v |-> 2, e |-> 5], [v |-> 4, e |-> 6], [v |-> 5, e |-> 7],
                   [v |-> 6, e |-> 8], [v |-> 3, e |-> 2]>>)]

\* A quad (0 1 2 3), a loose edge (4, 5) apart from it and the lone vertex 6.
MeshQuadWire ==
  [totvert |-> 7,
   edges |-> Arr(<<[v1 |-> 0, v2 |-> 1], [v1 |-> 1, v2 |-> 2], [v1 |-> 2, v2 |-> 3],
                   [v1 |-> 3, v2 |-> 0], [v1 |-> 4, v2 |-> 5]>>),
   polys |-> Arr(<<[loopstart |-> 0, totloop |-> 4]>>),
   loops |-> Arr(<<[v |-> 0, e |-> 0], [v |-> 1, e |-> 1], [v |-> 2, e |-> 2],
                   [v |-> 3, e |-> 3]>>)]

\* Two vertices and nothing else.
MeshPoints ==
  [totvert |-> 2,
   edges |-> Arr(<<>>),
   polys |-> Arr(<<>>),
   loops |-> Arr(<<>>)]

\*  0--1--2   two loose edges in a chain, both running forwards
MeshWireChain ==
  [totvert |-> 3,
   edges |-> Arr(<<[v1 |-> 0, v2 |-> 1], [v1 |-> 1, v2 |-> 2]>>),
   polys |-> Arr(<<>>),
   loops |-> Arr(<<>>)]

\* The same chain with both edges ending at the middle vertex.
MeshWireChainIn ==
  [totvert |-> 3,
   edges |-> Arr(<<[v1 |-> 0, v2 |-> 1], [v1 |-> 2, v2 |-> 1]>>),
   polys |-> Arr(<<>>),
   loops |-> Arr(<<>>)]

\* The same chain with both edges starting at the middle vertex.
MeshWireChainOut ==
  [totvert |-> 3,
   edges |-> Arr(<<[v1 |-> 1, v2 |-> 0], [v1 |-> 1, v2 |-> 2]>>),
   polys |-> Arr(<<>>),
   loops |-> Arr(<<>>)]

\*  0--1--2--3   a chain of three loose edges, the middle one running
\*        |      backwards, and a fourth loose edge ending at the vertex 2
\*        4
MeshWireFork ==
  [totvert |-> 5,
   edges |-> Arr(<<[v1 |-> 0, v2 |-> 1], [v1 |-> 2, v2 |-> 1], [v1 |-> 2, v2 |-> 3],
                   [v1 |-> 4, v2 |-> 2]>>),
   polys |-> Arr(<<>>),
   loops |-> Arr(<<>>)]

\* Three loose edges leaving the vertex 0.
MeshWireStar ==
  [totvert |-> 4,
   edges |-> Arr(<<[v1 |-> 0, v2 |-> 1], [v1 |-> 0, v2 |-> 2], [v1 |-> 3, v2 |-> 0]>>),
   polys |-> Arr(<<>>),
   loops |-> Arr(<<>>)]

VARIABLES
  coarse_mesh,   \* SubdivMeshContext::coarse_mesh and its cached arrays
  tls,           \* one worker's SubdivMeshTLS
  tls_heap,      \* the scratch CustomData allocations owned by tls
  tls_last,      \* what the last call on tls did
  tls_phase,     \* "running" until the driver's user_data_tls_free call
  subdiv,        \* the Subdiv of the call: evaluator outcome, displacement, settings
  pc,            \* where BKE_subdiv_to_mesh stands
  result,        \* what BKE_subdiv_to_mesh returned
  stats,         \* the statistics timers begun and ended
  ctx,           \* the SubdivMeshContext of the call and the output mesh it owns
  foreach_context, \* the SubdivForeachContext callback table
  driver,        \* where the traversal driver stands
  hist,          \* per output vertex: the samples accumulated, the final callback
  coarse_verts,  \* the position of each coarse vertex (one coordinate)
  threads,       \* each worker of the loose-edge pass: its task and its place in the callback
  vert_to_edge_map_mutex, \* SubdivMeshContext::vert_to_edge_map_mutex: 0 or its owner
  queue,         \* the loose edges no worker has taken yet
  loose_hist,    \* the loose-edge callbacks begun, the maps built, the positions computed
  me_eval,       \* the mesh handed to the tangent functions: polygons and layers
  tangent_call,  \* the tangent call under way: its arguments, locals and position
  reports,       \* the ReportList of the caller
  r_looptangents, \* the caller's output array of the single-layer functions
  task_pool,     \* the tasks pushed to the TaskPool of BKE_mesh_calc_loop_tangent_ex
  face_as_quad_map, \* the quad map of BKE_mesh_calc_loop_tangent_ex: NULL, a map or "freed"
  tangent_hist,  \* what the solver was shown and what it wrote
  settings,      \* SubdivToMeshSettings of the call
  subdiv_edges,  \* SubdivMeshContext::subdiv_edges, the output edges
  edge_origindex, \* SubdivMeshContext::edge_origindex
  subdiv_loops,  \* SubdivMeshContext::subdiv_loops, the output loops
  subdiv_ldata,  \* the loop custom data of the output mesh, per output loop
  uv_layers,     \* SubdivMeshContext::uv_layers: per UV layer, per output loop
  elem_hist      \* what the driver handed to the edge and loop callback, per output element

cacheVars == <<tls, tls_heap, tls_last, tls_phase>>

meshVars == <<subdiv, pc, result, stats, ctx, foreach_context, driver, hist>>

looseVars == <<coarse_verts, threads, vert_to_edge_map_mutex, queue, loose_hist>>

tangentVars == <<me_eval, tangent_call, reports, r_looptangents, task_pool, face_as_quad_map, tangent_hist>>

elemVars == <<settings, subdiv_edges, edge_origindex, subdiv_loops, subdiv_ldata, uv_layers, elem_hist>>

vars == <<coarse_mesh, cacheVars, meshVars, looseVars, tangentVars, elemVars>>

(***************************************************************************)
(* CustomData, the external per-element layer container.  An element is    *)
(* the weighted blend it was computed from: indices of the source          *)
(* elements and their weights <<num, den>>.                                *)
(***************************************************************************)

\* CD_SET_DEFAULT: the element a fresh layer holds.
DefaultElem == [indices |-> <<>>, weights |-> <<>>]

CopyElem(i) == [indices |-> <<i>>, weights |-> <<(<<1, 1>>)>>]

InterpElem(indices, weights) == [indices |-> indices, weights |-> weights]

\* The heap behind one scratch CustomData: the allocations not yet freed,
\* and whether a free or a write ever hit storage that was not allocated.
HeapInit == [live |-> 0, bad_free |-> FALSE, bad_write |-> FALSE]

CustomData_copy(h) == [h EXCEPT !.live = @ + 1]

CustomData_free(h) ==
  IF h.live > 0 THEN [h EXCEPT !.live = @ - 1] ELSE [h EXCEPT !.bad_free = TRUE]

\* Which helpers one call ran, and which storage slots it wrote.
NoLog ==
  [end |-> FALSE, free |-> FALSE, init |-> FALSE, alloc |-> FALSE, centroid |-> FALSE,
   from_corner |-> FALSE, slots |-> {}]

NoLogs == [v |-> NoLog, l |-> NoLog]

\* Write of element val into slot i of the scratch storage of bundle b.
StorageWrite(b, i, val) ==
  IF b.interp.storage.layers
    THEN [b EXCEPT !.interp.storage.elems[i] = val, !.log.slots = @ \cup {i}]
    ELSE [b EXCEPT !.heap.bad_write = TRUE]

LoopsOfPtex(mesh, coarse_poly, ptex_of_poly_index) ==
  LET poly == mesh.polys[coarse_poly]
      first_ptex_loop_index == poly.loopstart + ptex_of_poly_index
      last_ptex_loop_index ==
        poly.loopstart + ((ptex_of_poly_index + poly.totloop - 1) % poly.totloop)
  IN [first_loop |-> first_ptex_loop_index,
      last_loop |-> last_ptex_loop_index,
      second_loop |-> IF poly.totloop = 4 THEN first_ptex_loop_index + 1 ELSE NULL,
      third_loop |-> IF poly.totloop = 4 THEN first_ptex_loop_index + 2 ELSE NULL]

\* weights[i] = 1 / totloop for every corner of the polygon.
CentroidWeights(totloop) == [i \in 1..totloop |-> <<1, totloop>>]

HalfWeights == <<(<<1, 2>>), (<<1, 2>>)>>

(***************************************************************************)
(* VerticesForInterpolation / LoopsForInterpolation.  Both are the record  *)
(* [data, storage, storage_allocated, indices]; a bundle b carries the     *)
(* struct (b.interp) with its heap (b.heap) and the call log (b.log).      *)
(***************************************************************************)

\* A scratch CustomData with no layer allocated (zeroed, or after CustomData_free),
\* and one fresh from CustomData_copy(..., CD_SET_DEFAULT, 4).
StorageNone == [layers |-> FALSE, elems |-> [i \in 0..3 |-> DefaultElem]]

StorageFresh == [layers |-> TRUE, elems |-> [i \in 0..3 |-> DefaultElem]]

\* SubdivMeshTLS tls = {0}
InterpZero ==
  [data |-> NULL, storage |-> StorageNone, storage_allocated |-> FALSE,
   indices |-> [i \in 0..3 |-> 0]]

\* vertex_interpolation_init with the quad branch taking the loop indices
\* themselves (as loop_interpolation_init does) instead of the loops' vertices.
vertex_interpolation_init_loop_indices(b, mesh, coarse_poly) ==
  LET poly == mesh.polys[coarse_poly]
      b1 == [b EXCEPT !.log.init = TRUE]
  IN IF poly.totloop = 4
       THEN [b1 EXCEPT !.interp.data = "coarse_vdata",
                       !.interp.indices = [i \in 0..3 |-> poly.loopstart + i],
                       !.interp.storage_allocated = FALSE]
       ELSE LET b2 == [b1 EXCEPT !.interp.data = "vertex_data_storage",
                                 !.interp.storage = StorageFresh,
                                 !.heap = CustomData_copy(@),
                                 !.log.alloc = TRUE,
                                 !.interp.indices = [i \in 0..3 |-> i],
                                 !.interp.storage_allocated = TRUE]
                indices == [i \in 1..poly.totloop |->
                              mesh.loops[poly.loopstart + (i - 1)].v]
            IN [StorageWrite(b2, 2, InterpElem(indices, CentroidWeights(poly.totloop)))
                  EXCEPT !.log.centroid = TRUE]

vertex_interpolation_init(b, mesh, coarse_poly) ==
  LET poly == mesh.polys[coarse_poly]
      b1 == [b EXCEPT !.log.init = TRUE]
  IN IF poly.totloop = 4
       THEN [b1 EXCEPT !.interp.data = "coarse_vdata",
                       !.interp.indices =
                          [i \in 0..3 |-> mesh.loops[poly.loopstart + i].v],
                       !.interp.storage_allocated = FALSE]
       ELSE LET b2 == [b1 EXCEPT !.interp.data = "vertex_data_storage",
                                 !.interp.storage = StorageFresh,
                                 !.heap = CustomData_copy(@),
                                 !.log.alloc = TRUE,
                                 !.interp.indices = [i \in 0..3 |-> i],
                                 !.interp.storage_allocated = TRUE]
                indices == [i \in 1..poly.totloop |->
                              mesh.loops[poly.loopstart + (i - 1)].v]
            IN [StorageWrite(b2, 2, InterpElem(indices, CentroidWeights(poly.totloop)))
                  EXCEPT !.log.centroid = TRUE]

\* vertex_interpolation_from_corner with the second midpoint taken over the
\* outgoing edge again (first_indices passed for slot 3 as well).
vertex_interpolation_from_corner_first_indices_twice(b, mesh, coarse_poly, corner) ==
  LET poly == mesh.polys[coarse_poly]
      b1 == [b EXCEPT !.log.from_corner = TRUE]
  IN IF poly.totloop = 4
       THEN b1
       ELSE LET loops_of_ptex == LoopsOfPtex(mesh, coarse_poly, corner)
                first_loop_index == loops_of_ptex.first_loop
                first_indices ==
                  <<mesh.loops[first_loop_index].v,
                    mesh.loops[poly.loopstart +
                               ((first_loop_index - poly.loopstart + 1) % poly.totloop)].v>>
                b2 == StorageWrite(b1, 0, CopyElem(mesh.loops[poly.loopstart + corner].v))
                b3 == StorageWrite(b2, 1, InterpElem(first_indices, HalfWeights))
            IN StorageWrite(b3, 3, InterpElem(first_indices, HalfWeights))

vertex_interpolation_from_corner(b, mesh, coarse_poly, corner) ==
  LET poly == mesh.polys[coarse_poly]
      b1 == [b EXCEPT !.log.from_corner = TRUE]
  IN IF poly.totloop = 4
       THEN b1
       ELSE LET loops_of_ptex == LoopsOfPtex(mesh, coarse_poly, corner)
                first_loop_index == loops_of_ptex.first_loop
                last_loop_index == loops_of_ptex.last_loop
                first_indices ==
                  <<mesh.loops[first_loop_index].v,
                    mesh.loops[poly.loopstart +
                               ((first_loop_index - poly.loopstart + 1) % poly.totloop)].v>>
                last_indices ==
                  <<mesh.loops[first_loop_index].v, mesh.loops[last_loop_index].v>>
                b2 == StorageWrite(b1, 0, CopyElem(mesh.loops[poly.loopstart + corner].v))
                b3 == StorageWrite(b2, 1, InterpElem(first_indices, HalfWeights))
            IN StorageWrite(b3, 3, InterpElem(last_indices, HalfWeights))

vertex_interpolation_end(b) ==
  IF b.interp.storage_allocated
    THEN [b EXCEPT !.heap = CustomData_free(@), !.interp.storage = StorageNone,
                   !.log.end = TRUE, !.log.free = TRUE]
    ELSE [b EXCEPT !.log.end = TRUE]

loop_interpolation_init(b, mesh, coarse_poly) ==
  LET poly == mesh.polys[coarse_poly]
      b1 == [b EXCEPT !.log.init = TRUE]
  IN IF poly.totloop = 4
       THEN [b1 EXCEPT !.interp.data = "coarse_ldata",
                       !.interp.indices = [i \in 0..3 |-> poly.loopstart + i],
                       !.interp.storage_allocated = FALSE]
       ELSE LET b2 == [b1 EXCEPT !.interp.data = "loop_data_storage",
                                 !.interp.storage = StorageFresh,
                                 !.heap = CustomData_copy(@),
                                 !.log.alloc = TRUE,
                                 !.interp.indices = [i \in 0..3 |-> i],
                                 !.interp.storage_allocated = TRUE]
                indices == [i \in 1..poly.totloop |-> poly.loopstart + (i - 1)]
            IN [StorageWrite(b2, 2, InterpElem(indices, CentroidWeights(poly.totloop)))
                  EXCEPT !.log.centroid = TRUE]

loop_interpolation_from_corner(b, mesh, coarse_poly, corner) ==
  LET poly == mesh.polys[coarse_poly]
      b1 == [b EXCEPT !.log.from_corner = TRUE]
  IN IF poly.totloop = 4
       THEN b1
       ELSE LET loops_of_ptex == LoopsOfPtex(mesh, coarse_poly, corner)
                base_loop_index == poly.loopstart
                first_loop_index == loops_of_ptex.first_loop
                second_loop_index ==
                  base_loop_index + ((first_loop_index - base_loop_index + 1) % poly.totloop)
                first_indices == <<first_loop_index, second_loop_index>>
                last_indices == <<loops_of_ptex.last_loop, loops_of_ptex.first_loop>>
                \* CustomData_free_elem(slot 0), then CustomData_copy_data into it
                b2 == StorageWrite(b1, 0, CopyElem(poly.loopstart + corner))
                b3 == StorageWrite(b2, 1, InterpElem(first_indices, HalfWeights))
            IN StorageWrite(b3, 3, InterpElem(last_indices, HalfWeights))

loop_interpolation_end(b) ==
  IF b.interp.storage_allocated
    THEN [b EXCEPT !.heap = CustomData_free(@), !.interp.storage = StorageNone,
                   !.log.end = TRUE, !.log.free = TRUE]
    ELSE [b EXCEPT !.log.end = TRUE]

(***************************************************************************)
(* SubdivMeshTLS and the two cache-ensure functions.  A coarse_poly        *)
(* pointer is the polygon's index; the zeroed pointer is NULL_POLY.        *)
(***************************************************************************)

NULL_POLY == -1

TlsZero ==
  [vertex_interpolation_initialized |-> FALSE,
   vertex_interpolation |-> InterpZero,
   vertex_interpolation_coarse_poly |-> NULL_POLY,
   vertex_interpolation_coarse_corner |-> 0,
   loop_interpolation_initialized |-> FALSE,
   loop_interpolation |-> InterpZero,
   loop_interpolation_coarse_poly |-> NULL_POLY,
   loop_interpolation_coarse_corner |-> 0]

\* t is a bundle [tls, heap, log] with a heap and a log for the vertex cache (v)
\* and for the loop cache (l); the nested helpers work on the bundle
\* [interp, heap, log] of one cache.
VBundle(t) == [interp |-> t.tls.vertex_interpolation, heap |-> t.heap.v, log |-> t.log.v]

VMerge(t, b) ==
  [t EXCEPT !.tls.vertex_interpolation = b.interp, !.heap.v = b.heap, !.log.v = b.log]

LBundle(t) == [interp |-> t.tls.loop_interpolation, heap |-> t.heap.l, log |-> t.log.l]

LMerge(t, b) ==
  [t EXCEPT !.tls.loop_interpolation = b.interp, !.heap.l = b.heap, !.log.l = b.log]

\* subdiv_mesh_ensure_vertex_interpolation that forgets vertex_interpolation_end
\* when the request moves to another corner or polygon.
subdiv_mesh_ensure_vertex_interpolation_no_end(t, mesh, coarse_poly, coarse_corner) ==
  LET t1 == IF t.tls.vertex_interpolation_initialized
               /\ (t.tls.vertex_interpolation_coarse_poly # coarse_poly
                   \/ t.tls.vertex_interpolation_coarse_corner # coarse_corner)
              THEN [t EXCEPT !.tls.vertex_interpolation_initialized = FALSE]
              ELSE t
      t2 == IF ~t1.tls.vertex_interpolation_initialized
              THEN VMerge(t1, vertex_interpolation_init(VBundle(t1), mesh, coarse_poly))
              ELSE t1
      t3 == IF ~t2.tls.vertex_interpolation_initialized
               \/ t2.tls.vertex_interpolation_coarse_corner # coarse_corner
              THEN VMerge(t2, vertex_interpolation_from_corner(
                                VBundle(t2), mesh, coarse_poly, coarse_corner))
              ELSE t2
  IN [t3 EXCEPT !.tls.vertex_interpolation_initialized = TRUE,
                !.tls.vertex_interpolation_coarse_poly = coarse_poly,
                !.tls.vertex_interpolation_coarse_corner = coarse_corner]

subdiv_mesh_ensure_vertex_interpolation(t, mesh, coarse_poly, coarse_corner) ==
  LET \* Check whether we've moved to another corner or polygon.
      t1 == IF t.tls.vertex_interpolation_initialized
               /\ (t.tls.vertex_interpolation_coarse_poly # coarse_poly
                   \/ t.tls.vertex_interpolation_coarse_corner # coarse_corner)
              THEN [VMerge(t, vertex_interpolation_end(VBundle(t)))
                      EXCEPT !.tls.vertex_interpolation_initialized = FALSE]
              ELSE t
      \* Initialize the interpolation.
      t2 == IF ~t1.tls.vertex_interpolation_initialized
              THEN VMerge(t1, vertex_interpolation_init(VBundle(t1), mesh, coarse_poly))
              ELSE t1
      \* Update it for a new corner if needed.
      t3 == IF ~t2.tls.vertex_interpolation_initialized
               \/ t2.tls.vertex_interpolation_coarse_corner # coarse_corner
              THEN VMerge(t2, vertex_interpolation_from_corner(
                                VBundle(t2), mesh, coarse_poly, coarse_corner))
              ELSE t2
  IN \* Store settings used for the current state of interpolator.
     [t3 EXCEPT !.tls.vertex_interpolation_initialized = TRUE,
                !.tls.vertex_interpolation_coarse_poly = coarse_poly,
                !.tls.vertex_interpolation_coarse_corner = coarse_corner]

\* subdiv_mesh_ensure_loop_interpolation with the per-corner update run on
\* every call, cache hit or not.
subdiv_mesh_ensure_loop_interpolation_always_update(t, mesh, coarse_poly, coarse_corner) ==
  LET t1 == IF t.tls.loop_interpolation_initialized
               /\ (t.tls.loop_interpolation_coarse_poly # coarse_poly
                   \/ t.tls.loop_interpolation_coarse_corner # coarse_corner)
              THEN [LMerge(t, loop_interpolation_end(LBundle(t)))
                      EXCEPT !.tls.loop_interpolation_initialized = FALSE]
              ELSE t
      t2 == IF ~t1.tls.loop_interpolation_initialized
              THEN LMerge(t1, loop_interpolation_init(LBundle(t1), mesh, coarse_poly))
              ELSE t1
      t3 == LMerge(t2, loop_interpolation_from_corner(
                         LBundle(t2), mesh, coarse_poly, coarse_corner))
  IN [t3 EXCEPT !.tls.loop_interpolation_initialized = TRUE,
                !.tls.loop_interpolation_coarse_poly = coarse_poly,
                !.tls.loop_interpolation_coarse_corner = coarse_corner]

subdiv_mesh_ensure_loop_interpolation(t, mesh, coarse_poly, coarse_corner) ==
  LET t1 == IF t.tls.loop_interpolation_initialized
               /\ (t.tls.loop_interpolation_coarse_poly # coarse_poly
                   \/ t.tls.loop_interpolation_coarse_corner # coarse_corner)
              THEN [LMerge(t, loop_interpolation_end(LBundle(t)))
                      EXCEPT !.tls.loop_interpolation_initialized = FALSE]
              ELSE t
      t2 == IF ~t1.tls.loop_interpolation_initialized
              THEN LMerge(t1, loop_interpolation_init(LBundle(t1), mesh, coarse_poly))
              ELSE t1
      t3 == IF ~t2.tls.loop_interpolation_initialized
               \/ t2.tls.loop_interpolation_coarse_corner # coarse_corner
              THEN LMerge(t2, loop_interpolation_from_corner(
                                LBundle(t2), mesh, coarse_poly, coarse_corner))
              ELSE t2
  IN [t3 EXCEPT !.tls.loop_interpolation_initialized = TRUE,
                !.tls.loop_interpolation_coarse_poly = coarse_poly,
                !.tls.loop_interpolation_coarse_corner = coarse_corner]

subdiv_mesh_tls_free(t) ==
  LET t1 == IF t.tls.vertex_interpolation_initialized
              THEN VMerge(t, vertex_interpolation_end(VBundle(t)))
              ELSE t
  IN IF t1.tls.loop_interpolation_initialized
       THEN LMerge(t1, loop_interpolation_end(LBundle(t1)))
       ELSE t1

(***************************************************************************)
(* Float values as exact rationals: [num, den] with den >= 0.  den = 0 is  *)
(* a non-finite value: 1.0f / 0 is [1, 0] (inf) and 0 * inf is [0, 0]      *)
(* (NaN).                                                                  *)
(***************************************************************************)

Rat(n) == [num |-> n, den |-> 1]

RatInv(n) == [num |-> 1, den |-> n]

RatAdd(a, b) == [num |-> a.num * b.den + b.num * a.den, den |-> a.den * b.den]

RatMul(a, b) == [num |-> a.num * b.num, den |-> a.den * b.den]

RatFinite(a) == a.den # 0

RatEq(a, b) == RatFinite(a) /\ RatFinite(b) /\ a.num * b.den = b.num * a.den

RECURSIVE SumSeq(_)
SumSeq(q) == IF q = <<>> THEN 0 ELSE Head(q) + SumSeq(Tail(q))

(***************************************************************************)
(* The limit evaluator, an oracle: a point and a displacement for each     *)
(* (ptex face, u, v).  u and v are counted in halves (u2 = 2u), which is   *)
(* every parameter the driver produces at subdivision level 1.             *)
(***************************************************************************)

MaxDisp == 2

BKE_subdiv_eval_limit_point(ptex_face_index, u2, v2) ==
  100 * ptex_face_index + 10 * u2 + v2

BKE_subdiv_eval_final_point(ptex_face_index, u2, v2) ==
  100 * ptex_face_index + 10 * u2 + v2 + 1000

BKE_subdiv_eval_displacement(sd, ptex_face_index, u2, v2) ==
  sd.disp * (1 + ptex_face_index + 2 * u2 + v2)

(***************************************************************************)
(* SubdivMeshContext.  ctx.co is the position of each output vertex,       *)
(* ctx.accumulated_counters the counter array (allocated or not).          *)
(***************************************************************************)

NoArray == [i \in {} |-> 0]

ORIGINDEX_NONE == -1

\* SubdivMeshContext subdiv_context = {0}
CtxZero ==
  [have_displacement |-> FALSE,
   subdiv_mesh |-> NULL,
   num_vertices |-> 0,
   co |-> NoArray,
   vdata |-> NoArray,
   vert_origindex |-> [present |-> FALSE, val |-> NoArray],
   orco |-> [present |-> FALSE, val |-> NoArray, null_write |-> FALSE],
   cloth_orco |-> [present |-> FALSE, val |-> NoArray],
   face_dot_tags |-> NoArray,
   accumulated_counters |-> [allocated |-> FALSE, n |-> NoArray],
   vert_to_edge_map |-> NULL,
   vert_to_edge_buffer |-> NoArray]

HistZero == [samples |-> NoArray, final |-> NoArray, writes |-> NoArray]

NoFinal == [done |-> FALSE, kind |-> "none", ptex |-> 0, u2 |-> 0, v2 |-> 0]

Final(kind, ptex_face_index, u2, v2) ==
  [done |-> TRUE, kind |-> kind, ptex |-> ptex_face_index, u2 |-> u2, v2 |-> v2]

\* An element of the output mesh's vertex layers: the layers it was read from
\* and the blend of their elements.
OutElem(data, indices, weights) == [data |-> data, indices |-> indices, weights |-> weights]

\* subdiv_mesh_prepare_accumulator without the have_displacement test.
subdiv_mesh_prepare_accumulator_unconditional(c, num_vertices) ==
  [c EXCEPT !.accumulated_counters =
               [allocated |-> TRUE, n |-> [i \in 0..(num_vertices - 1) |-> 0]]]

subdiv_mesh_prepare_accumulator(c, num_vertices) ==
  IF ~c.have_displacement
    THEN c
    ELSE [c EXCEPT !.accumulated_counters =
                      [allocated |-> TRUE, n |-> [i \in 0..(num_vertices - 1) |-> 0]]]

subdiv_mesh_context_free(c) ==
  [c EXCEPT !.accumulated_counters = [allocated |-> FALSE, n |-> NoArray],
            !.vert_to_edge_buffer = NoArray,
            !.vert_to_edge_map = NULL]

\* M is the bundle [ctx, hist, tls, heap, log] a callback works on.  The output
\* mesh is made from the coarse mesh as a template: it has an origin-index
\* layer when the coarse mesh has one (sd.has_origindex), zeroed positions
\* and default layer elements.
subdiv_mesh_topology_info(M, sd, num_vertices) ==
  LET verts == 0..(num_vertices - 1)
      c1 == [M.ctx EXCEPT !.subdiv_mesh = "mesh",
                          !.num_vertices = num_vertices,
                          !.co = [i \in verts |-> Rat(0)],
                          !.vdata = [i \in verts |-> OutElem("default", <<>>, <<>>)],
                          !.vert_origindex =
                             [present |-> sd.has_origindex, val |-> [i \in verts |-> 0]],
                          !.orco = [present |-> sd.has_orco, val |-> [i \in verts |-> 0],
                                    null_write |-> FALSE],
                          !.cloth_orco =
                             [present |-> sd.has_cloth_orco, val |-> [i \in verts |-> 0]],
                          !.face_dot_tags = [i \in verts |-> FALSE]]
  IN [M EXCEPT !.ctx = subdiv_mesh_prepare_accumulator(c1, num_vertices),
               !.hist = [samples |-> [i \in verts |-> <<>>],
                         final |-> [i \in verts |-> NoFinal],
                         writes |-> [i \in verts |-> <<>>]]]

\* BKE_subdiv_eval_vertex_data: the two packed vectors of a sample, the
\* first for orco and the second for cloth orco, told apart by their value.
BKE_subdiv_eval_vertex_data(ptex_face_index, u2, v2) == <<5000 + 100 * ptex_face_index + 10 * u2 + v2, 7000 + 100 * ptex_face_index + 10 * u2 + v2>>

\* A write through ctx->orco when that pointer is null is recorded in
\* orco.null_write.
subdiv_vertex_orco_evaluate(c, ptex_face_index, u2, v2, subdiv_vertex_index) ==
  IF c.orco.present \/ c.cloth_orco.present
    THEN LET vertex_data == BKE_subdiv_eval_vertex_data(ptex_face_index, u2, v2)
         IN IF c.orco.present
              THEN IF c.cloth_orco.present
                     THEN [c EXCEPT !.orco.val[subdiv_vertex_index] = vertex_data[2]]
                     ELSE [c EXCEPT !.orco.val[subdiv_vertex_index] = vertex_data[1]]
              ELSE [c EXCEPT !.orco.null_write = TRUE]
    ELSE c

subdiv_accumulate_vertex_displacement(M, sd, ptex_face_index, u2, v2, subdiv_vertex_index) ==
  LET D == BKE_subdiv_eval_displacement(sd, ptex_face_index, u2, v2)
      M1 == [M EXCEPT !.ctx.co[subdiv_vertex_index] = RatAdd(@, Rat(D)),
                      !.hist.samples[subdiv_vertex_index] = Append(@, D)]
  IN IF M1.ctx.accumulated_counters.allocated
       THEN [M1 EXCEPT !.ctx.accumulated_counters.n[subdiv_vertex_index] = @ + 1]
       ELSE M1

\* CustomData_copy_data of every vertex layer: the MVert layer with the
\* position and the origin index among them (the coarse vertex i has origin
\* index i).
subdiv_vertex_data_copy(M, coarse_vertex_index, subdiv_vertex_index) ==
  [M EXCEPT !.ctx.vdata[subdiv_vertex_index] =
               OutElem("coarse_vdata", <<coarse_vertex_index>>, <<(<<1, 1>>)>>),
            !.ctx.co[subdiv_vertex_index] = Rat(coarse_verts[coarse_vertex_index]),
            !.ctx.vert_origindex.val[subdiv_vertex_index] = coarse_vertex_index]

\* The weights with the slots 1 and 3 the other way round.
BilinearWeights_slots_swapped(u2, v2) == <<(<<(2 - u2) * (2 - v2), 4>>), (<<(2 - u2) * v2, 4>>), (<<u2 * v2, 4>>), (<<u2 * (2 - v2), 4>>)>>

\* weights = {(1-u)(1-v), u(1-v), uv, (1-u)v}, in quarters.
BilinearWeights(u2, v2) ==
  <<(<<(2 - u2) * (2 - v2), 4>>), (<<u2 * (2 - v2), 4>>), (<<u2 * v2, 4>>),
    (<<(2 - u2) * v2, 4>>)>>

\* subdiv_vertex_data_interpolate that leaves the origin index alone.
subdiv_vertex_data_interpolate_keep_origindex(M, u2, v2, subdiv_vertex_index) ==
  LET vertex_interpolation == M.tls.vertex_interpolation
      read == IF vertex_interpolation.data = "coarse_vdata"
                THEN [i \in 1..4 |-> CopyElem(vertex_interpolation.indices[i - 1])]
                ELSE [i \in 1..4 |->
                        vertex_interpolation.storage.elems[vertex_interpolation.indices[i - 1]]]
  IN [M EXCEPT !.ctx.vdata[subdiv_vertex_index] =
                  OutElem(vertex_interpolation.data, read, BilinearWeights(u2, v2))]

subdiv_vertex_data_interpolate(M, u2, v2, subdiv_vertex_index) ==
  LET vertex_interpolation == M.tls.vertex_interpolation
      \* the elements read: the coarse layers' own, or the scratch slots
      read == IF vertex_interpolation.data = "coarse_vdata"
                THEN [i \in 1..4 |-> CopyElem(vertex_interpolation.indices[i - 1])]
                ELSE [i \in 1..4 |->
                        vertex_interpolation.storage.elems[vertex_interpolation.indices[i - 1]]]
      M1 == [M EXCEPT !.ctx.vdata[subdiv_vertex_index] =
                         OutElem(vertex_interpolation.data, read, BilinearWeights(u2, v2))]
  IN IF M1.ctx.vert_origindex.present
       THEN [M1 EXCEPT !.ctx.vert_origindex.val[subdiv_vertex_index] = ORIGINDEX_NONE]
       ELSE M1

\* evaluate_vertex_and_apply_displacement_copy without mul_v3_fl: the sum of
\* the samples is applied, not their average.
evaluate_vertex_and_apply_displacement_copy_sum(M, ptex_face_index, u2, v2, coarse_vertex_index, subdiv_vertex_index) ==
  LET D == IF M.ctx.have_displacement
             THEN M.ctx.co[subdiv_vertex_index]
             ELSE Rat(0)
      M1 == subdiv_vertex_data_copy(M, coarse_vertex_index, subdiv_vertex_index)
      P == BKE_subdiv_eval_limit_point(ptex_face_index, u2, v2)
      R == [M1 EXCEPT !.ctx.co[subdiv_vertex_index] = RatAdd(Rat(P), D),
                     !.ctx.face_dot_tags[subdiv_vertex_index] = FALSE,
                     !.hist.final[subdiv_vertex_index] = Final("corner", ptex_face_index, u2, v2),
                     !.hist.writes[subdiv_vertex_index] = Append(@, "corner")]
  IN \* Evaluate undeformed texture coordinate.
     [R EXCEPT !.ctx = subdiv_vertex_orco_evaluate(R.ctx, ptex_face_index, u2, v2, subdiv_vertex_index)]

evaluate_vertex_and_apply_displacement_copy(M, ptex_face_index, u2, v2, coarse_vertex_index, subdiv_vertex_index) ==
  LET \* Displacement is accumulated in subdiv vertex position.
      D == IF M.ctx.have_displacement
             THEN RatMul(M.ctx.co[subdiv_vertex_index],
                         RatInv(M.ctx.accumulated_counters.n[subdiv_vertex_index]))
             ELSE Rat(0)
      \* Copy custom data and evaluate position.
      M1 == subdiv_vertex_data_copy(M, coarse_vertex_index, subdiv_vertex_index)
      P == BKE_subdiv_eval_limit_point(ptex_face_index, u2, v2)
      R == [M1 EXCEPT !.ctx.co[subdiv_vertex_index] = RatAdd(Rat(P), D),
                     !.ctx.face_dot_tags[subdiv_vertex_index] = FALSE,
                     !.hist.final[subdiv_vertex_index] = Final("corner", ptex_face_index, u2, v2),
                     !.hist.writes[subdiv_vertex_index] = Append(@, "corner")]
  IN \* Evaluate undeformed texture coordinate.
     [R EXCEPT !.ctx = subdiv_vertex_orco_evaluate(R.ctx, ptex_face_index, u2, v2, subdiv_vertex_index)]

evaluate_vertex_and_apply_displacement_interpolate(M, ptex_face_index, u2, v2, subdiv_vertex_index) ==
  LET D == IF M.ctx.have_displacement
             THEN RatMul(M.ctx.co[subdiv_vertex_index],
                         RatInv(M.ctx.accumulated_counters.n[subdiv_vertex_index]))
             ELSE Rat(0)
      \* Interpolate custom data and evaluate position.
      M1 == subdiv_vertex_data_interpolate(M, u2, v2, subdiv_vertex_index)
      P == BKE_subdiv_eval_limit_point(ptex_face_index, u2, v2)
      R == [M1 EXCEPT !.ctx.co[subdiv_vertex_index] = RatAdd(Rat(P), D),
                     !.hist.final[subdiv_vertex_index] = Final("edge", ptex_face_index, u2, v2),
                     !.hist.writes[subdiv_vertex_index] = Append(@, "edge")]
  IN \* Evaluate undeformed texture coordinate.
     [R EXCEPT !.ctx = subdiv_vertex_orco_evaluate(R.ctx, ptex_face_index, u2, v2, subdiv_vertex_index)]

subdiv_mesh_vertex_displacement_every_corner_or_edge(M, sd, ptex_face_index, u2, v2, subdiv_vertex_index) ==
  subdiv_accumulate_vertex_displacement(M, sd, ptex_face_index, u2, v2, subdiv_vertex_index)

subdiv_mesh_vertex_corner(M, ptex_face_index, u2, v2, coarse_vertex_index, subdiv_vertex_index) ==
  evaluate_vertex_and_apply_displacement_copy(
    M, ptex_face_index, u2, v2, coarse_vertex_index, subdiv_vertex_index)

subdiv_mesh_vertex_edge(M, mesh, ptex_face_index, u2, v2, coarse_poly_index, coarse_corner, subdiv_vertex_index) ==
  evaluate_vertex_and_apply_displacement_interpolate(
    subdiv_mesh_ensure_vertex_interpolation(M, mesh, coarse_poly_index, coarse_corner),
    ptex_face_index, u2, v2, subdiv_vertex_index)

\* subdiv_mesh_is_center_vertex with the n-gon test for every polygon.
subdiv_mesh_is_center_vertex_ngon_test(mesh, coarse_poly_index, u2, v2) ==
  u2 = 2 /\ v2 = 2

subdiv_mesh_is_center_vertex(mesh, coarse_poly_index, u2, v2) ==
  IF mesh.polys[coarse_poly_index].totloop = 4
    THEN u2 = 1 /\ v2 = 1
    ELSE u2 = 2 /\ v2 = 2

subdiv_mesh_tag_center_vertex(M, mesh, coarse_poly_index, subdiv_vertex_index, u2, v2) ==
  IF subdiv_mesh_is_center_vertex(mesh, coarse_poly_index, u2, v2)
    THEN [M EXCEPT !.ctx.face_dot_tags[subdiv_vertex_index] = TRUE]
    ELSE M

subdiv_mesh_vertex_inner(M, mesh, ptex_face_index, u2, v2, coarse_poly_index, coarse_corner, subdiv_vertex_index) ==
  LET M1 == subdiv_mesh_ensure_vertex_interpolation(M, mesh, coarse_poly_index, coarse_corner)
      M2 == subdiv_vertex_data_interpolate(M1, u2, v2, subdiv_vertex_index)
      M3 == [M2 EXCEPT !.ctx.co[subdiv_vertex_index] =
                          Rat(BKE_subdiv_eval_final_point(ptex_face_index, u2, v2)),
                       !.hist.final[subdiv_vertex_index] =
                          Final("inner", ptex_face_index, u2, v2),
                       !.hist.writes[subdiv_vertex_index] = Append(@, "inner")]
      R == subdiv_mesh_tag_center_vertex(M3, mesh, coarse_poly_index, subdiv_vertex_index, u2, v2)
  IN [R EXCEPT !.ctx = subdiv_vertex_orco_evaluate(R.ctx, ptex_face_index, u2, v2, subdiv_vertex_index)]

(***************************************************************************)
(* Loose elements.  A loose edge is cut at u = 0, 1/2, 1 (u2 = 0, 1, 2 in  *)
(* halves); its ends are the output vertices of its coarse end vertices,   *)
(* its middle is the output vertex totvert + edge index.                   *)
(***************************************************************************)

subdiv_mesh_vertex_loose(M, coarse_vertex_index, subdiv_vertex_index) ==
  [subdiv_vertex_data_copy(M, coarse_vertex_index, subdiv_vertex_index)
     EXCEPT !.hist.writes[subdiv_vertex_index] = Append(@, "loose")]

\* The edges below index n that touch the vertex v, in index order.
RECURSIVE EdgeUsers(_, _, _)
EdgeUsers(mesh, v, n) ==
  IF n = 0
    THEN <<>>
    ELSE LET r == EdgeUsers(mesh, v, n - 1)
         IN IF v = mesh.edges[n - 1].v1 \/ v = mesh.edges[n - 1].v2
              THEN Append(r, n - 1)
              ELSE r

\* BKE_mesh_vert_edge_map_create: for each coarse vertex the indices of the
\* coarse edges that touch it.
BKE_mesh_vert_edge_map_create(c, mesh) ==
  [c EXCEPT !.vert_to_edge_map = "map",
            !.vert_to_edge_buffer =
               [v \in 0..(mesh.totvert - 1) |-> EdgeUsers(mesh, v, ArrLen(mesh.edges))]]

NO_EDGE == -1

\* One end of find_edge_neighbors without the reset of a neighbour counted
\* more than once: the last other edge found is kept.
EdgeNeighbor_keep_last(mesh, entry, edge_index, v) ==
  LET Touches(i) == i # edge_index /\ (v = mesh.edges[i].v1 \/ v = mesh.edges[i].v2)
      found == SelectSeq(entry, Touches)
      neighbor_counter == Len(found)
  IN IF neighbor_counter = 0
       THEN NO_EDGE
       ELSE found[Len(found)]

\* One end of find_edge_neighbors: the last other edge of the vertex's map
\* entry that touches the vertex, or none when more than one does.
EdgeNeighbor(mesh, entry, edge_index, v) ==
  LET Touches(i) == i # edge_index /\ (v = mesh.edges[i].v1 \/ v = mesh.edges[i].v2)
      found == SelectSeq(entry, Touches)
      neighbor_counter == Len(found)
  IN IF neighbor_counter = 0 \/ neighbor_counter > 1
       THEN NO_EDGE
       ELSE found[Len(found)]

find_edge_neighbors(mesh, vert_to_edge_map, edge_index) ==
  LET edge == mesh.edges[edge_index]
  IN <<EdgeNeighbor(mesh, vert_to_edge_map[edge.v1], edge_index, edge.v1),
       EdgeNeighbor(mesh, vert_to_edge_map[edge.v2], edge_index, edge.v2)>>

\* points_for_loose_edges_interpolation_get without the test of which end of
\* the neighbour is the shared vertex: the neighbour's v1 is taken.
points_for_loose_edges_interpolation_get_neighbor_v1(coarse_mvert, mesh, coarse_edge, neighbors) ==
  LET p1 == coarse_mvert[coarse_edge.v1]
      p2 == coarse_mvert[coarse_edge.v2]
      p0 == IF neighbors[1] # NO_EDGE
              THEN coarse_mvert[mesh.edges[neighbors[1]].v1]
              ELSE (p1 - p2) + p1
      p3 == IF neighbors[2] # NO_EDGE
              THEN coarse_mvert[mesh.edges[neighbors[2]].v1]
              ELSE (p2 - p1) + p2
  IN <<p0, p1, p2, p3>>

\* points_for_loose_edges_interpolation_get with the end point doubled where
\* there is no neighbour, as its comments say, instead of extrapolated.
points_for_loose_edges_interpolation_get_duplicate(coarse_mvert, mesh, coarse_edge, neighbors) ==
  LET p1 == coarse_mvert[coarse_edge.v1]
      p2 == coarse_mvert[coarse_edge.v2]
      p0 == IF neighbors[1] # NO_EDGE
              THEN IF mesh.edges[neighbors[1]].v1 = coarse_edge.v1
                     THEN coarse_mvert[mesh.edges[neighbors[1]].v2]
                     ELSE coarse_mvert[mesh.edges[neighbors[1]].v1]
              ELSE p1
      p3 == IF neighbors[2] # NO_EDGE
              THEN IF mesh.edges[neighbors[2]].v1 = coarse_edge.v2
                     THEN coarse_mvert[mesh.edges[neighbors[2]].v2]
                     ELSE coarse_mvert[mesh.edges[neighbors[2]].v1]
              ELSE p2
  IN <<p0, p1, p2, p3>>

points_for_loose_edges_interpolation_get(coarse_mvert, mesh, coarse_edge, neighbors) ==
  LET \* Middle points corresponds to the edge.
      p1 == coarse_mvert[coarse_edge.v1]
      p2 == coarse_mvert[coarse_edge.v2]
      \* Start point: the neighbour's far vertex, or p1 + (p1 - p2).
      p0 == IF neighbors[1] # NO_EDGE
              THEN IF mesh.edges[neighbors[1]].v1 = coarse_edge.v1
                     THEN coarse_mvert[mesh.edges[neighbors[1]].v2]
                     ELSE coarse_mvert[mesh.edges[neighbors[1]].v1]
              ELSE (p1 - p2) + p1
      \* End point: the neighbour's far vertex, or p2 + (p2 - p1).
      p3 == IF neighbors[2] # NO_EDGE
              THEN IF mesh.edges[neighbors[2]].v1 = coarse_edge.v2
                     THEN coarse_mvert[mesh.edges[neighbors[2]].v2]
                     ELSE coarse_mvert[mesh.edges[neighbors[2]].v1]
              ELSE (p2 - p1) + p2
  IN <<p0, p1, p2, p3>>

\* key_curve_position_weights(u, weights, KEY_BSPLINE) at u = u2 / 2: the
\* uniform cubic B-spline basis
\*   ((1-u)^3, 3u^3 - 6u^2 + 4, -3u^3 + 3u^2 + 3u + 1, u^3) / 6,
\* in forty-eighths.
key_curve_position_weights(u2) ==
  <<(2 - u2) * (2 - u2) * (2 - u2),
    3 * u2 * u2 * u2 - 12 * u2 * u2 + 32,
    -3 * u2 * u2 * u2 + 6 * u2 * u2 + 12 * u2 + 8,
    u2 * u2 * u2>>

BKE_subdiv_mesh_interpolate_position_on_edge(coarse_mvert, mesh, vert_to_edge_map, coarse_edge_index, is_simple, u2) ==
  LET coarse_edge == mesh.edges[coarse_edge_index]
  IN IF is_simple
       THEN \* interp_v3_v3v3: (1 - u) * vert_1 + u * vert_2
            [num |-> (2 - u2) * coarse_mvert[coarse_edge.v1]
                     + u2 * coarse_mvert[coarse_edge.v2],
             den |-> 2]
       ELSE LET neighbors == find_edge_neighbors(mesh, vert_to_edge_map, coarse_edge_index)
                points == points_for_loose_edges_interpolation_get(
                            coarse_mvert, mesh, coarse_edge, neighbors)
                weights == key_curve_position_weights(u2)
            IN [num |-> weights[1] * points[1] + weights[2] * points[2]
                        + weights[3] * points[3] + weights[4] * points[4],
                den |-> 48]

subdiv_mesh_vertex_of_loose_edge_interpolate(M, coarse_edge, u2, subdiv_vertex_index) ==
  LET M1 == [M EXCEPT !.ctx.vdata[subdiv_vertex_index] =
                         OutElem("coarse_vdata", <<coarse_edge.v1, coarse_edge.v2>>,
                                 <<(<<2 - u2, 2>>), (<<u2, 2>>)>>)]
  IN IF M1.ctx.vert_origindex.present
       THEN [M1 EXCEPT !.ctx.vert_origindex.val[subdiv_vertex_index] = ORIGINDEX_NONE]
       ELSE M1

\* subdiv_mesh_vertex_of_loose_edge_tail without the end-point test: the
\* custom data is interpolated for every u.
subdiv_mesh_vertex_of_loose_edge_tail_every_u(M, mesh, map, is_simple, coarse_edge_index, u2, subdiv_vertex_index) ==
  LET M1 == subdiv_mesh_vertex_of_loose_edge_interpolate(
              M, mesh.edges[coarse_edge_index], u2, subdiv_vertex_index)
  IN [M1 EXCEPT !.ctx.co[subdiv_vertex_index] =
                   BKE_subdiv_mesh_interpolate_position_on_edge(
                     coarse_verts, mesh, map, coarse_edge_index, is_simple, u2),
                !.hist.writes[subdiv_vertex_index] = Append(@, "loose_edge")]

\* The part of subdiv_mesh_vertex_of_loose_edge after the lazy map: custom
\* data when not an end point, then the coordinate.  `map` is the map's
\* content as this thread reads it.
subdiv_mesh_vertex_of_loose_edge_tail(M, mesh, map, is_simple, coarse_edge_index, u2, subdiv_vertex_index) ==
  LET M1 == IF u2 # 0 /\ u2 # 2
              THEN subdiv_mesh_vertex_of_loose_edge_interpolate(
                     M, mesh.edges[coarse_edge_index], u2, subdiv_vertex_index)
              ELSE M
  IN [M1 EXCEPT !.ctx.co[subdiv_vertex_index] =
                   BKE_subdiv_mesh_interpolate_position_on_edge(
                     coarse_verts, mesh, map, coarse_edge_index, is_simple, u2),
                !.hist.writes[subdiv_vertex_index] = Append(@, "loose_edge")]

\* The worker threads of the driver's parallel passes.
Workers == {1, 2}

\* The parameters of the vertices of one loose edge, in halves.
LooseEdgeU2 == <<0, 1, 2>>

ThreadIdle == [pc |-> "idle", edge |-> 0, i |-> 1, synced |-> FALSE]

LooseHistZero == [calls |-> 0, builds |-> 0, results |-> {}]

\* The coarse vertices and edges some polygon uses; the others are loose.
VerticesUsed(mesh) == {mesh.loops[l].v : l \in DOMAIN mesh.loops}

EdgesUsed(mesh) == {mesh.loops[l].e : l \in DOMAIN mesh.loops}

\* The output vertex of the loose edge's vertex at u2.
LooseEdgeVertex(mesh, coarse_edge_index, u2) ==
  CASE u2 = 0 -> mesh.edges[coarse_edge_index].v1
    [] u2 = 2 -> mesh.edges[coarse_edge_index].v2
    [] OTHER -> mesh.totvert + coarse_edge_index

(***************************************************************************)
(* The callback table and the traversal driver.  The driver               *)
(* (BKE_subdiv_foreach_subdiv_geometry) is an external collaborator: it    *)
(* calls topology_info first, then, on one thread, the every-corner and    *)
(* every-edge passes when they are wired, then the corner and edge         *)
(* callbacks once per shared vertex, then the interior callbacks, and     *)
(* frees each thread-local scratch struct through user_data_tls_free.      *)
(* Subdivision level 1: one vertex per coarse vertex, per coarse edge and  *)
(* per coarse polygon.                                                     *)
(***************************************************************************)

\* memset(foreach_context, 0, sizeof(*foreach_context))
ForeachZero ==
  [topology_info |-> NULL, vertex_every_corner |-> NULL, vertex_every_edge |-> NULL,
   vertex_corner |-> NULL, vertex_edge |-> NULL, vertex_inner |-> NULL,
   vertex_loose |-> NULL, vertex_of_loose_edge |-> NULL,
   user_data_tls_free |-> NULL]

\* setup_foreach_callbacks with the corner callbacks wired into each other's slot.
setup_foreach_callbacks_swapped(c) ==
  [ForeachZero EXCEPT
     !.topology_info = "subdiv_mesh_topology_info",
     !.vertex_every_corner =
        IF c.have_displacement THEN "subdiv_mesh_vertex_corner" ELSE NULL,
     !.vertex_every_edge =
        IF c.have_displacement THEN "subdiv_mesh_vertex_displacement_every_edge" ELSE NULL,
     !.vertex_corner =
        IF c.have_displacement
          THEN "subdiv_mesh_vertex_displacement_every_corner"
          ELSE "subdiv_mesh_vertex_corner",
     !.vertex_edge = "subdiv_mesh_vertex_edge",
     !.vertex_inner = "subdiv_mesh_vertex_inner",
     !.vertex_loose = "subdiv_mesh_vertex_loose",
     !.vertex_of_loose_edge = "subdiv_mesh_vertex_of_loose_edge",
     !.user_data_tls_free = "subdiv_mesh_tls_free"]

setup_foreach_callbacks(c) ==
  [ForeachZero EXCEPT
     !.topology_info = "subdiv_mesh_topology_info",
     !.vertex_every_corner =
        IF c.have_displacement THEN "subdiv_mesh_vertex_displacement_every_corner" ELSE NULL,
     !.vertex_every_edge =
        IF c.have_displacement THEN "subdiv_mesh_vertex_displacement_every_edge" ELSE NULL,
     !.vertex_corner = "subdiv_mesh_vertex_corner",
     !.vertex_edge = "subdiv_mesh_vertex_edge",
     !.vertex_inner = "subdiv_mesh_vertex_inner",
     !.vertex_loose = "subdiv_mesh_vertex_loose",
     !.vertex_of_loose_edge = "subdiv_mesh_vertex_of_loose_edge",
     !.user_data_tls_free = "subdiv_mesh_tls_free"]

\* A call through a SubdivForeachVertexFromCornerCb slot holding `name`.
SubdivForeachVertexFromCornerCb(name, M, sd, s) ==
  CASE name = "subdiv_mesh_vertex_displacement_every_corner" ->
         subdiv_mesh_vertex_displacement_every_corner_or_edge(
           M, sd, s.ptex, s.u2, s.v2, s.subdiv_vertex_index)
    [] name = "subdiv_mesh_vertex_corner" ->
         subdiv_mesh_vertex_corner(
           M, s.ptex, s.u2, s.v2, s.coarse_vertex_index, s.subdiv_vertex_index)

\* A call through a SubdivForeachVertexFromEdgeCb slot holding `name`.
SubdivForeachVertexFromEdgeCb(name, M, sd, mesh, s) ==
  CASE name = "subdiv_mesh_vertex_displacement_every_edge" ->
         subdiv_mesh_vertex_displacement_every_corner_or_edge(
           M, sd, s.ptex, s.u2, s.v2, s.subdiv_vertex_index)
    [] name = "subdiv_mesh_vertex_edge" ->
         subdiv_mesh_vertex_edge(M, mesh, s.ptex, s.u2, s.v2, s.coarse_poly_index,
                                 s.coarse_corner, s.subdiv_vertex_index)

NumPolys(mesh) == ArrLen(mesh.polys)

NumLoops(mesh) == ArrLen(mesh.loops)

NumEdges(mesh) == ArrLen(mesh.edges)

NumSubdivVertices(mesh) == mesh.totvert + NumEdges(mesh) + NumPolys(mesh)

PolyOfLoop(mesh, l) ==
  CHOOSE p \in DOMAIN mesh.polys :
    mesh.polys[p].loopstart <= l /\ l < mesh.polys[p].loopstart + mesh.polys[p].totloop

\* The first ptex face of polygon p: a quad has one, an n-gon one per corner.
RECURSIVE PtexOffset(_, _)
PtexOffset(mesh, p) ==
  IF p = 0
    THEN 0
    ELSE PtexOffset(mesh, p - 1)
         + (IF mesh.polys[p - 1].totloop = 4 THEN 1 ELSE mesh.polys[p - 1].totloop)

\* (u, v) in halves of corner c of a quad's ptex face, and of the middle of
\* the edge leaving that corner.
QuadCornerUV == Arr(<<(<<0, 0>>), (<<2, 0>>), (<<2, 2>>), (<<0, 2>>)>>)

QuadEdgeUV == Arr(<<(<<1, 0>>), (<<2, 1>>), (<<1, 2>>), (<<0, 1>>)>>)

\* The boundary sample of coarse loop l at its corner vertex.
CornerSample(mesh, l) ==
  LET p == PolyOfLoop(mesh, l)
      c == l - mesh.polys[p].loopstart
      quad == mesh.polys[p].totloop = 4
  IN [ptex |-> IF quad THEN PtexOffset(mesh, p) ELSE PtexOffset(mesh, p) + c,
      u2 |-> IF quad THEN QuadCornerUV[c][1] ELSE 0,
      v2 |-> IF quad THEN QuadCornerUV[c][2] ELSE 0,
      coarse_vertex_index |-> mesh.loops[l].v,
      coarse_poly_index |-> p,
      coarse_corner |-> c,
      subdiv_vertex_index |-> mesh.loops[l].v]

\* The boundary sample of coarse loop l at the middle of its edge.
EdgeSample(mesh, l) ==
  LET p == PolyOfLoop(mesh, l)
      c == l - mesh.polys[p].loopstart
      quad == mesh.polys[p].totloop = 4
  IN [ptex |-> IF quad THEN PtexOffset(mesh, p) ELSE PtexOffset(mesh, p) + c,
      u2 |-> IF quad THEN QuadEdgeUV[c][1] ELSE 2,
      v2 |-> IF quad THEN QuadEdgeUV[c][2] ELSE 0,
      coarse_edge_index |-> mesh.loops[l].e,
      coarse_poly_index |-> p,
      coarse_corner |-> c,
      subdiv_vertex_index |-> mesh.totvert + mesh.loops[l].e]

\* The interior vertex of polygon p: the patch centre.
InnerSample(mesh, p) ==
  LET quad == mesh.polys[p].totloop = 4
  IN [ptex |-> PtexOffset(mesh, p),
      u2 |-> IF quad THEN 1 ELSE 2,
      v2 |-> IF quad THEN 1 ELSE 2,
      coarse_poly_index |-> p,
      coarse_corner |-> 0,
      subdiv_vertex_index |-> mesh.totvert + NumEdges(mesh) + p]

\* Item i of the once-per-vertex pass: polygon by polygon, its corners, then
\* its edges.
SingleItem(mesh, i) ==
  LET p == CHOOSE q \in DOMAIN mesh.polys :
             2 * mesh.polys[q].loopstart <= i
             /\ i < 2 * (mesh.polys[q].loopstart + mesh.polys[q].totloop)
      poly == mesh.polys[p]
      j == i - 2 * poly.loopstart
  IN IF j < poly.totloop
       THEN [kind |-> "corner", s |-> CornerSample(mesh, poly.loopstart + j)]
       ELSE [kind |-> "edge", s |-> EdgeSample(mesh, poly.loopstart + j - poly.totloop)]

DriverIdle == [phase |-> "idle", i |-> 0, used |-> {}]

(***************************************************************************)
(* The edge and the loop callback.  An output edge is [v1, v2, flag, data] *)
(* with flag the set of flag bits and data the coarse edge its custom data *)
(* was copied from; a coarse edge pointer is the edge's index, nullptr is  *)
(* NO_EDGE.  The loop custom data of an output loop is the blend that      *)
(* CustomData_interp wrote, and each UV layer holds, per output loop, who  *)
(* wrote it last: the layer's default, CustomData_interp, or the           *)
(* evaluator's face-varying sample.                                        *)
(***************************************************************************)

ME_EDGERENDER == "ME_EDGERENDER"

\* The flag bits of the coarse edge i (MEdge::flag, copied with the edge's data).
CoarseEdgeFlag(i) ==
  CASE i % 3 = 0 -> {}
    [] i % 3 = 1 -> {"ME_SEAM"}
    [] OTHER -> {ME_EDGERENDER, "ME_SHARP"}

\* An output edge, an output loop and their layers as the new mesh allocates them.
EdgeZero == [v1 |-> 0, v2 |-> 0, flag |-> {}, data |-> NO_EDGE]

LoopZero == [v |-> 0, e |-> 0]

UvDefault == [src |-> "default", val |-> 0]

UvInterpolated == [src |-> "CustomData_interp", val |-> 0]

\* BKE_subdiv_eval_face_varying: the evaluator's sample of one UV layer.
BKE_subdiv_eval_face_varying(layer_index, ptex_face_index, u2, v2) ==
  [src |-> "face_varying",
   val |-> 1000 * (layer_index + 1) + 100 * ptex_face_index + 10 * u2 + v2]

EdgeBundle == [subdiv_edges |-> subdiv_edges, edge_origindex |-> edge_origindex]

LoopBundle ==
  [tls |-> tls, heap |-> tls_heap, log |-> NoLogs, subdiv_loops |-> subdiv_loops,
   subdiv_ldata |-> subdiv_ldata, uv_layers |-> uv_layers]

\* subdiv_copy_edge_data with the optimal-display test made for an edge that
\* has a coarse source too.
subdiv_copy_edge_data_optimal_display_everywhere(E, use_optimal_display, subdiv_edge_index, coarse_edge) ==
  IF coarse_edge = NO_EDGE
    THEN LET E1 == [E EXCEPT !.subdiv_edges[subdiv_edge_index].flag =
                                IF ~use_optimal_display THEN {ME_EDGERENDER} ELSE {}]
         IN IF E1.edge_origindex.present
              THEN [E1 EXCEPT !.edge_origindex.val[subdiv_edge_index] = ORIGINDEX_NONE]
              ELSE E1
    ELSE LET E1 == [E EXCEPT !.subdiv_edges[subdiv_edge_index].flag =
                                CoarseEdgeFlag(coarse_edge),
                             !.subdiv_edges[subdiv_edge_index].data = coarse_edge,
                             !.edge_origindex.val[subdiv_edge_index] =
                                IF E.edge_origindex.present THEN coarse_edge ELSE @]
         IN IF ~use_optimal_display
              THEN [E1 EXCEPT !.subdiv_edges[subdiv_edge_index].flag = @ \cup {ME_EDGERENDER}]
              ELSE E1

subdiv_copy_edge_data(E, use_optimal_display, subdiv_edge_index, coarse_edge) ==
  IF coarse_edge = NO_EDGE
    THEN LET \* subdiv_edge->flag = 0, then ME_EDGERENDER unless optimal display
             E1 == [E EXCEPT !.subdiv_edges[subdiv_edge_index].flag =
                                IF ~use_optimal_display THEN {ME_EDGERENDER} ELSE {}]
         IN IF E1.edge_origindex.present
              THEN [E1 EXCEPT !.edge_origindex.val[subdiv_edge_index] = ORIGINDEX_NONE]
              ELSE E1
    ELSE LET \* CustomData_copy_data of the edge layers: the MEdge with its
             \* flag, and the origin index where the layer exists
             E1 == [E EXCEPT !.subdiv_edges[subdiv_edge_index].flag =
                                CoarseEdgeFlag(coarse_edge),
                             !.subdiv_edges[subdiv_edge_index].data = coarse_edge,
                             !.edge_origindex.val[subdiv_edge_index] =
                                IF E.edge_origindex.present THEN coarse_edge ELSE @]
         IN [E1 EXCEPT !.subdiv_edges[subdiv_edge_index].flag = @ \cup {ME_EDGERENDER}]

subdiv_mesh_edge(E, use_optimal_display, coarse_edge_index, subdiv_edge_index, subdiv_v1, subdiv_v2) ==
  LET coarse_edge == IF coarse_edge_index # ORIGINDEX_NONE THEN coarse_edge_index ELSE NO_EDGE
      E1 == subdiv_copy_edge_data(E, use_optimal_display, subdiv_edge_index, coarse_edge)
  IN [E1 EXCEPT !.subdiv_edges[subdiv_edge_index].v1 = subdiv_v1,
                !.subdiv_edges[subdiv_edge_index].v2 = subdiv_v2]

\* CustomData_interp over the loop layers of the output mesh: the blend of the
\* four cached elements, written into every layer of the loop, UV layers included.
subdiv_interpolate_loop_data(L, u2, v2, subdiv_loop_index) ==
  LET loop_interpolation == L.tls.loop_interpolation
      read == IF loop_interpolation.data = "coarse_ldata"
                THEN [i \in 1..4 |-> CopyElem(loop_interpolation.indices[i - 1])]
                ELSE [i \in 1..4 |->
                        loop_interpolation.storage.elems[loop_interpolation.indices[i - 1]]]
  IN [L EXCEPT !.subdiv_ldata[subdiv_loop_index] =
                  OutElem(loop_interpolation.data, read, BilinearWeights(u2, v2)),
               !.uv_layers = [layer_index \in DOMAIN @ |->
                                [@[layer_index] EXCEPT ![subdiv_loop_index] = UvInterpolated]]]

subdiv_eval_uv_layer(L, ptex_face_index, u2, v2, mloop_index) ==
  [L EXCEPT !.uv_layers =
     [layer_index \in DOMAIN @ |->
        [@[layer_index] EXCEPT ![mloop_index] =
           BKE_subdiv_eval_face_varying(layer_index - 1, ptex_face_index, u2, v2)]]]

\* subdiv_mesh_loop with the face-varying evaluation made before the generic
\* interpolation of the loop data.
subdiv_mesh_loop_uv_first(L, mesh, ptex_face_index, u2, v2, coarse_poly_index, coarse_corner, subdiv_loop_index, subdiv_vertex_index, subdiv_edge_index) ==
  LET t == subdiv_mesh_ensure_loop_interpolation(
             [tls |-> L.tls, heap |-> L.heap, log |-> L.log],
             mesh, coarse_poly_index, coarse_corner)
      L1 == [L EXCEPT !.tls = t.tls, !.heap = t.heap, !.log = t.log]
      L2 == subdiv_eval_uv_layer(L1, ptex_face_index, u2, v2, subdiv_loop_index)
      L3 == subdiv_interpolate_loop_data(L2, u2, v2, subdiv_loop_index)
  IN [L3 EXCEPT !.subdiv_loops[subdiv_loop_index] =
                   [v |-> subdiv_vertex_index, e |-> subdiv_edge_index]]

subdiv_mesh_loop(L, mesh, ptex_face_index, u2, v2, coarse_poly_index, coarse_corner, subdiv_loop_index, subdiv_vertex_index, subdiv_edge_index) ==
  LET t == subdiv_mesh_ensure_loop_interpolation(
             [tls |-> L.tls, heap |-> L.heap, log |-> L.log],
             mesh, coarse_poly_index, coarse_corner)
      L1 == [L EXCEPT !.tls = t.tls, !.heap = t.heap, !.log = t.log]
      L2 == subdiv_interpolate_loop_data(L1, u2, v2, subdiv_loop_index)
      L3 == subdiv_eval_uv_layer(L2, ptex_face_index, u2, v2, subdiv_loop_index)
  IN [L3 EXCEPT !.subdiv_loops[subdiv_loop_index] =
                   [v |-> subdiv_vertex_index, e |-> subdiv_edge_index]]

\* No output edge or loop allocated.
ElemIdle ==
  /\ settings = [use_optimal_display |-> FALSE]
  /\ subdiv_edges = Arr(<<>>)
  /\ edge_origindex = [present |-> FALSE, val |-> Arr(<<>>)]
  /\ subdiv_loops = Arr(<<>>)
  /\ subdiv_ldata = Arr(<<>>)
  /\ uv_layers = <<>>
  /\ elem_hist = [edges |-> Arr(<<>>), loops |-> Arr(<<>>)]

(***************************************************************************)
(* Tangent space: source/blender/blenkernel/intern/mesh_tangent.cc.        *)
(* A mesh is its polygons (loopstart, totloop), its loop layers (the UV    *)
(* layers by name, the active and render UV layer, whether a loop-normal   *)
(* layer exists, the tangent layers by name with their data) and whether   *)
(* it has an orco layer.  A tangent is not computed: the value the solver  *)
(* hands to SetTangentSpace is the triple (source, face, corner) it was    *)
(* computed for.                                                           *)
(***************************************************************************)

\* The zeros of a tangent layer added with CD_SET_DEFAULT.
TangentDefault == [src |-> "default", face |-> 0 - 1, vert |-> 0 - 1]

\* Whatever the caller's output array held before the call.
TangentOfCaller == [src |-> "caller", face |-> 0 - 1, vert |-> 0 - 1]

\* The tangent the solver computes for a corner of a face from the source src.
SolverTangent(src, face_num, vert_num) == [src |-> src, face |-> face_num, vert |-> vert_num]

RECURSIVE LoopStart(_, _)
LoopStart(sizes, i) == IF i = 1 THEN 0 ELSE LoopStart(sizes, i - 1) + sizes[i - 1]

\* The polygon array of a mesh whose polygons have the given corner counts.
TangentPolys(sizes) == Arr([i \in 1..Len(sizes) |-> [loopstart |-> LoopStart(sizes, i), totloop |-> sizes[i]]])

TotLoop(mpoly) == IF DOMAIN mpoly = {} THEN 0 ELSE LET last == ArrLen(mpoly) - 1 IN mpoly[last].loopstart + mpoly[last].totloop

RPT_UNSUPPORTED == [type |-> "RPT_ERROR", message |-> "Tangent space can only be computed for tris/quads, aborting", arg |-> ""]

\* The "%s" of the message is filled with uvmap; a null uvmap is formatted
\* by the C library, which prints "(null)".
RPT_NO_UVMAP(uvmap) == [type |-> "RPT_ERROR", message |-> "Tangent space computation needs a UV Map, \"%s\" not found, aborting", arg |-> IF uvmap = NULL THEN "(null)" ELSE uvmap]

RPT_NO_NORMALS == [type |-> "RPT_ERROR", message |-> "Tangent space computation needs loop normals, none found, aborting", arg |-> ""]

BKE_report(T, report) == [T EXCEPT !.reports = Append(@, report)]

BKEMeshToTangent_GetNumFaces(mesh_to_tangent) == mesh_to_tangent.num_polys

BKEMeshToTangent_GetNumVerticesOfFace(mesh_to_tangent, face_num) == mesh_to_tangent.mpolys[face_num].totloop

BKEMeshToTangent_SetTangentSpace(mesh_to_tangent, face_num, vert_num, T) == [mesh_to_tangent EXCEPT !.tangents[mesh_to_tangent.mpolys[face_num].loopstart + vert_num] = T]

\* mikk::Mikktspace<BKEMeshToTangent>::genTangSpace: the solver asks for the
\* faces and their corner counts and sets the tangent of every corner of
\* every face once.
RECURSIVE BKEMeshToTangent_genTangSpace(_, _, _)
BKEMeshToTangent_genTangSpace(mesh_to_tangent, face_num, vert_num) ==
  IF face_num >= BKEMeshToTangent_GetNumFaces(mesh_to_tangent)
    THEN mesh_to_tangent
    ELSE IF vert_num >= BKEMeshToTangent_GetNumVerticesOfFace(mesh_to_tangent, face_num)
      THEN BKEMeshToTangent_genTangSpace(mesh_to_tangent, face_num + 1, 0)
      ELSE BKEMeshToTangent_genTangSpace(
             BKEMeshToTangent_SetTangentSpace(mesh_to_tangent, face_num, vert_num,
               SolverTangent(mesh_to_tangent.luvs, face_num, vert_num)),
             face_num, vert_num + 1)

\* T is the caller's side of the call: reports, r_looptangents and the count
\* of solver runs.
BKE_mesh_calc_loop_tangent_single_ex_last_poly_only(T, mpolys, numPolys, loopnors, loopuvs) ==
  IF numPolys > 0 /\ mpolys[numPolys - 1].totloop > 4
    THEN BKE_report(T, RPT_UNSUPPORTED)
    ELSE LET mesh_to_tangent == [mpolys |-> mpolys, luvs |-> loopuvs, lnors |-> loopnors,
                                 tangents |-> T.r_looptangents, num_polys |-> numPolys]
         IN [T EXCEPT !.r_looptangents =
                        BKEMeshToTangent_genTangSpace(mesh_to_tangent, 0, 0).tangents,
                      !.solver_runs = @ + 1]

BKE_mesh_calc_loop_tangent_single_ex(T, mpolys, numPolys, loopnors, loopuvs) ==
  IF \E i \in 0..(numPolys - 1) : mpolys[i].totloop > 4
    THEN BKE_report(T, RPT_UNSUPPORTED)
    ELSE LET mesh_to_tangent == [mpolys |-> mpolys, luvs |-> loopuvs, lnors |-> loopnors,
                                 tangents |-> T.r_looptangents, num_polys |-> numPolys]
         IN [T EXCEPT !.r_looptangents =
                        BKEMeshToTangent_genTangSpace(mesh_to_tangent, 0, 0).tangents,
                      !.solver_runs = @ + 1]

\* CustomData_get_layer_named(ldata, CD_MLOOPUV, name): the layer or NULL.
CustomData_get_layer_named_uv(ldata, name) == IF \E n \in 1..Len(ldata.uv) : ldata.uv[n] = name THEN name ELSE NULL

\* CustomData_get_layer(ldata, CD_MLOOPUV): the active UV layer or NULL.
CustomData_get_layer_uv(ldata) == IF ldata.uv = <<>> THEN NULL ELSE ldata.uv[ldata.active + 1]

\* CustomData_get_layer(ldata, CD_NORMAL): the loop normals or NULL.
CustomData_get_layer_normal(ldata) == IF ldata.normal THEN "CD_NORMAL" ELSE NULL

BKE_mesh_calc_loop_tangent_single_normals_first(T, mesh, uvmap) ==
  LET loopuvs == IF uvmap # NULL THEN CustomData_get_layer_named_uv(mesh.ldata, uvmap)
                                  ELSE CustomData_get_layer_uv(mesh.ldata)
      loopnors == CustomData_get_layer_normal(mesh.ldata)
  IN IF loopnors = NULL THEN BKE_report(T, RPT_NO_NORMALS)
     ELSE IF loopuvs = NULL THEN BKE_report(T, RPT_NO_UVMAP(uvmap))
     ELSE BKE_mesh_calc_loop_tangent_single_ex(T, mesh.polys, ArrLen(mesh.polys), loopnors, loopuvs)

BKE_mesh_calc_loop_tangent_single(T, mesh, uvmap) ==
  LET loopuvs == IF uvmap # NULL THEN CustomData_get_layer_named_uv(mesh.ldata, uvmap)
                                  ELSE CustomData_get_layer_uv(mesh.ldata)
      loopnors == CustomData_get_layer_normal(mesh.ldata)
  IN IF loopuvs = NULL THEN BKE_report(T, RPT_NO_UVMAP(uvmap))
     ELSE IF loopnors = NULL THEN BKE_report(T, RPT_NO_NORMALS)
     ELSE BKE_mesh_calc_loop_tangent_single_ex(T, mesh.polys, ArrLen(mesh.polys), loopnors, loopuvs)

\* BKE_mesh_runtime_looptri_ensure: the triangles of a polygon of n corners
\* are the n - 2 triangles of the fan at its first corner, and the triangles
\* of the mesh follow the order of its polygons.
RECURSIVE LoopTris(_, _)
LoopTris(mpoly, p) ==
  IF p >= ArrLen(mpoly) THEN <<>>
  ELSE LET mp == mpoly[p]
       IN [i \in 1..(IF mp.totloop < 3 THEN 0 ELSE mp.totloop - 2) |->
             [poly |-> p, tri |-> Arr(<<mp.loopstart, mp.loopstart + i, mp.loopstart + i + 1>>)]]
          \o LoopTris(mpoly, p + 1)

\* A mask of tangent layers is the set of its bits: bit n is the n-th UV layer.
DM_TANGENT_MASK_ORCO == {9}

UvNames(ldata) == {ldata.uv[n] : n \in 1..Len(ldata.uv)}

TangentNames(ldata) == {ldata.tangent[n].name : n \in 1..Len(ldata.tangent)}

\* CustomData_get_named_layer_index(ldata, CD_MLOOPUV, name) less the index of
\* the first UV layer, or -1.
UvLayerN(ldata, name) == IF name \in UvNames(ldata) THEN (CHOOSE n \in 1..Len(ldata.uv) : ldata.uv[n] = name /\ \A k \in 1..(n - 1) : ldata.uv[k] # name) - 1 ELSE 0 - 1

TangentLayerN(ldata, name) == IF name \in TangentNames(ldata) THEN (CHOOSE n \in 1..Len(ldata.tangent) : ldata.tangent[n].name = name /\ \A k \in 1..(n - 1) : ldata.tangent[k].name # name) - 1 ELSE 0 - 1

Names(tangent_names) == {tangent_names[i] : i \in 1..Len(tangent_names)}

BKE_mesh_calc_loop_tangent_step_0(loopData, calc_active_tangent, tangent_names) ==
  LET act_uv_n == loopData.active
      act_uv_name == IF act_uv_n # 0 - 1 THEN loopData.uv[act_uv_n + 1] ELSE ""
      ren_uv_n == loopData.render
      ren_uv_name == IF ren_uv_n # 0 - 1 THEN loopData.uv[ren_uv_n + 1] ELSE ""
      calc_active == calc_active_tangent \/ "" \in Names(tangent_names)
      calc_act == calc_active /\ act_uv_name \notin Names(tangent_names)
      calc_ren == calc_active /\ ren_uv_name \notin Names(tangent_names)
      add(name) == \/ (name # "" /\ name \in Names(tangent_names))
                   \/ (calc_act /\ act_uv_name # "" /\ act_uv_name = name)
                   \/ (calc_ren /\ ren_uv_name # "" /\ ren_uv_name = name)
      uv_layer_num == Len(loopData.uv)
  IN [calc_act |-> calc_act, calc_ren |-> calc_ren, act_uv_n |-> act_uv_n, ren_uv_n |-> ren_uv_n,
      act_uv_name |-> act_uv_name, ren_uv_name |-> ren_uv_name,
      tangent_mask |-> {n \in 0..(uv_layer_num - 1) : add(loopData.uv[n + 1])}
                         \cup (IF uv_layer_num = 0 THEN DM_TANGENT_MASK_ORCO ELSE {})]

\* CustomData_add_layer_named(ldata, CD_TANGENT, CD_SET_DEFAULT, nullptr, numLoopData, name)
CustomData_add_layer_named_tangent(ldata, numLoopData, name) == [ldata EXCEPT !.tangent = Append(@, [name |-> name, data |-> [l \in 0..(numLoopData - 1) |-> TangentDefault]])]

BKE_mesh_add_loop_tangent_named_layer_for_uv(ldata, numLoopData, layer_name) == IF layer_name \notin TangentNames(ldata) /\ layer_name \in UvNames(ldata) THEN CustomData_add_layer_named_tangent(ldata, numLoopData, layer_name) ELSE ldata

RECURSIVE AddNamedLayers(_, _, _, _)
AddNamedLayers(ldata, numLoopData, tangent_names, i) ==
  IF i > Len(tangent_names) THEN ldata
  ELSE AddNamedLayers(IF tangent_names[i] # ""
                        THEN BKE_mesh_add_loop_tangent_named_layer_for_uv(ldata, numLoopData, tangent_names[i])
                        ELSE ldata,
                      numLoopData, tangent_names, i + 1)

\* "Allocate needed tangent layers" of BKE_mesh_calc_loop_tangent_ex, with
\* loopdata and loopdata_out the same CustomData as BKE_mesh_calc_loop_tangents
\* passes them.
AllocateTangentLayers(ldata, numLoopData, tangent_names, s0) ==
  LET named == AddNamedLayers(ldata, numLoopData, tangent_names, 1)
      orco == IF DM_TANGENT_MASK_ORCO \subseteq s0.tangent_mask /\ "" \notin TangentNames(named)
                THEN CustomData_add_layer_named_tangent(named, numLoopData, "")
                ELSE named
      act == IF s0.calc_act /\ s0.act_uv_name # ""
               THEN BKE_mesh_add_loop_tangent_named_layer_for_uv(orco, numLoopData, s0.act_uv_name)
               ELSE orco
  IN IF s0.calc_ren /\ s0.ren_uv_name # ""
       THEN BKE_mesh_add_loop_tangent_named_layer_for_uv(act, numLoopData, s0.ren_uv_name)
       ELSE act

NoQuadMap == [state |-> "null", map |-> Arr(<<>>)]

\* "map faces to quads": one entry per exposed face, the second triangle of
\* every quad is stepped over.
RECURSIVE MapFacesToQuads_no_step(_, _, _, _)
MapFacesToQuads_no_step(mpoly, looptri, j, map) ==
  IF j >= ArrLen(looptri) THEN map
  ELSE MapFacesToQuads_no_step(mpoly, looptri, j + 1, Append(map, j))

RECURSIVE MapFacesToQuads(_, _, _, _)
MapFacesToQuads(mpoly, looptri, j, map) ==
  IF j >= ArrLen(looptri) THEN map
  ELSE MapFacesToQuads(mpoly, looptri,
                       IF mpoly[looptri[j].poly].totloop = 4 THEN j + 2 ELSE j + 1,
                       Append(map, j))

SGLSLMeshToTangent_GetNumFaces(mesh2tangent) == mesh2tangent.num_face_as_quad_map

SGLSLMeshToTangent_GetNumVerticesOfFace(mesh2tangent, face_num) ==
  IF mesh2tangent.face_as_quad_map.state # "null"
       /\ mesh2tangent.mpoly[mesh2tangent.looptri[mesh2tangent.face_as_quad_map.map[face_num]].poly].totloop = 4
    THEN 4
    ELSE 3

SGLSLMeshToTangent_GetLoop(mesh2tangent, face_num, vert_num) ==
  LET lt == IF mesh2tangent.face_as_quad_map.state # "null"
              THEN mesh2tangent.looptri[mesh2tangent.face_as_quad_map.map[face_num]]
              ELSE mesh2tangent.looptri[face_num]
      mp == mesh2tangent.mpoly[lt.poly]
  IN IF mesh2tangent.face_as_quad_map.state # "null" /\ mp.totloop = 4
       THEN mp.loopstart + vert_num
       ELSE lt.tri[vert_num]

\* SetTangentSpace for every corner of the face face_num: the loops written
\* and the tangent layer after the writes.
RECURSIVE SGLSLMeshToTangent_SetFace(_, _, _, _)
SGLSLMeshToTangent_SetFace(mesh2tangent, tangent, face_num, vert_num) ==
  IF vert_num >= SGLSLMeshToTangent_GetNumVerticesOfFace(mesh2tangent, face_num)
    THEN tangent
    ELSE SGLSLMeshToTangent_SetFace(
           mesh2tangent,
           [tangent EXCEPT ![SGLSLMeshToTangent_GetLoop(mesh2tangent, face_num, vert_num)] =
                             SolverTangent(mesh2tangent.src, face_num, vert_num)],
           face_num, vert_num + 1)

\* The loop layers of a mesh with the given UV layers and no tangent layer.
LoopData(uv, active, render, normal) == [uv |-> uv, active |-> active, render |-> render, normal |-> normal, tangent |-> <<>>, tangent_active |-> 0 - 1, tangent_render |-> 0 - 1]

TangentMesh(sizes, ldata, orco) == [polys |-> TangentPolys(sizes), looptri |-> Arr(LoopTris(TangentPolys(sizes), 0)), totloop |-> TotLoop(TangentPolys(sizes)), ldata |-> ldata, orco |-> orco]

Step0Zero == [calc_act |-> FALSE, calc_ren |-> FALSE, act_uv_n |-> 0 - 1, ren_uv_n |-> 0 - 1, act_uv_name |-> "", ren_uv_name |-> "", tangent_mask |-> {}]

TangentCallIdle == [pc |-> "idle", calls |-> 0, fn |-> "none", tangent_names |-> <<>>, calc_active_tangent |-> FALSE, s0 |-> Step0Zero, n |-> 0, num_face_as_quad_map |-> 0, tangent_mask_curr |-> {}, tangent_mask_curr_p |-> {}]

TaskPoolNone == [state |-> "none", tasks |-> <<>>]

TangentHistZero == [solver_runs |-> 0, writes |-> {}, last |-> [fn |-> "none", uvmap |-> "", reports |-> 0, tangents |-> Arr(<<>>), runs |-> 0, ldata |-> LoopData(<<>>, 0 - 1, 0 - 1, FALSE), mask |-> {}]]

\* No tangent call under way, on a mesh without polygons.
TangentIdle ==
  /\ me_eval = TangentMesh(<<>>, LoopData(<<>>, 0 - 1, 0 - 1, FALSE), FALSE)
  /\ tangent_call = TangentCallIdle
  /\ reports = <<>>
  /\ r_looptangents = Arr(<<>>)
  /\ task_pool = TaskPoolNone
  /\ face_as_quad_map = NoQuadMap
  /\ tangent_hist = TangentHistZero

(***************************************************************************)
(* One worker's cache under an arbitrary sequence of requests: the         *)
(* callbacks subdiv_mesh_vertex_edge / subdiv_mesh_vertex_inner ask for    *)
(* the vertex cache, subdiv_mesh_loop for the loop cache, and the driver   *)
(* calls user_data_tls_free once at the end.                               *)
(***************************************************************************)

CacheMeshes == {MeshQuadTriPent, MeshTwoQuads}

\* The cache key before a call: what the call compared its request with.
KeyZero == [initialized |-> FALSE, poly |-> NULL_POLY, corner |-> 0]

VertexKey(t) ==
  [initialized |-> t.vertex_interpolation_initialized,
   poly |-> t.vertex_interpolation_coarse_poly,
   corner |-> t.vertex_interpolation_coarse_corner]

LoopKey(t) ==
  [initialized |-> t.loop_interpolation_initialized,
   poly |-> t.loop_interpolation_coarse_poly,
   corner |-> t.loop_interpolation_coarse_corner]

LastNone ==
  [op |-> "none", poly |-> NULL_POLY, corner |-> 0, was |-> KeyZero, log |-> NoLogs]

CacheIdle ==
  /\ tls = TlsZero
  /\ tls_heap = [v |-> HeapInit, l |-> HeapInit]
  /\ tls_last = LastNone
  /\ tls_phase = "running"

\* No loose-edge pass under way; the coarse vertex v stands at v.
LooseIdle ==
  /\ coarse_verts = [v \in 0..(coarse_mesh.totvert - 1) |-> v]
  /\ threads = [w \in Workers |-> ThreadIdle]
  /\ vert_to_edge_map_mutex = 0
  /\ queue = {}
  /\ loose_hist = LooseHistZero

MeshIdle ==
  /\ subdiv = [eval_begin_ok |-> TRUE, has_displacement_evaluator |-> FALSE, disp |-> 1,
               has_origindex |-> FALSE, is_simple |-> FALSE, has_orco |-> FALSE,
               has_cloth_orco |-> FALSE]
  /\ pc = "start"
  /\ result = "unset"
  /\ stats = [begun |-> {}, ended |-> {}]
  /\ ctx = CtxZero
  /\ foreach_context = ForeachZero
  /\ driver = DriverIdle
  /\ hist = HistZero

TlsBundle == [tls |-> tls, heap |-> tls_heap, log |-> NoLogs]

EnsureVertexInterpolation(coarse_poly, coarse_corner) ==
  /\ tls_phase = "running"
  /\ LET t == subdiv_mesh_ensure_vertex_interpolation(
                TlsBundle, coarse_mesh, coarse_poly, coarse_corner)
     IN /\ tls' = t.tls
        /\ tls_heap' = t.heap
        /\ tls_last' = [op |-> "vertex", poly |-> coarse_poly, corner |-> coarse_corner,
                        was |-> VertexKey(tls), log |-> t.log]
  /\ UNCHANGED <<elemVars, tangentVars, coarse_mesh, tls_phase, meshVars, looseVars>>

EnsureLoopInterpolation(coarse_poly, coarse_corner) ==
  /\ tls_phase = "running"
  /\ LET t == subdiv_mesh_ensure_loop_interpolation(
                TlsBundle, coarse_mesh, coarse_poly, coarse_corner)
     IN /\ tls' = t.tls
        /\ tls_heap' = t.heap
        /\ tls_last' = [op |-> "loop", poly |-> coarse_poly, corner |-> coarse_corner,
                        was |-> LoopKey(tls), log |-> t.log]
  /\ UNCHANGED <<elemVars, tangentVars, coarse_mesh, tls_phase, meshVars, looseVars>>

TlsFree ==
  /\ tls_phase = "running"
  /\ LET t == subdiv_mesh_tls_free(TlsBundle)
     IN /\ tls' = t.tls
        /\ tls_heap' = t.heap
        /\ tls_last' = [op |-> "free", poly |-> NULL_POLY, corner |-> 0, was |-> KeyZero,
                        log |-> t.log]
  /\ tls_phase' = "freed"
  /\ UNCHANGED <<elemVars, tangentVars, coarse_mesh, meshVars, looseVars>>

\* The (polygon, corner) pairs the driver can name: a quad is one ptex face and
\* is always asked for with its own corners, an n-gon has one ptex face per corner.
Corners(mesh, p) == 0..(mesh.polys[p].totloop - 1)

InitCache ==
  /\ coarse_mesh \in CacheMeshes
  /\ CacheIdle
  /\ MeshIdle
  /\ LooseIdle
  /\ TangentIdle
  /\ ElemIdle

NextCache ==
  \/ \E p \in DOMAIN coarse_mesh.polys : \E c \in Corners(coarse_mesh, p) :
       EnsureVertexInterpolation(p, c)
  \/ \E p \in DOMAIN coarse_mesh.polys : \E c \in Corners(coarse_mesh, p) :
       EnsureLoopInterpolation(p, c)
  \/ TlsFree

SpecCache == InitCache /\ [][NextCache]_vars

(***************************************************************************)
(* Properties of the interpolation caches.                                 *)
(***************************************************************************)

IsQuad(p) == p \in DOMAIN coarse_mesh.polys /\ coarse_mesh.polys[p].totloop = 4

IsIrregular(p) == p \in DOMAIN coarse_mesh.polys /\ coarse_mesh.polys[p].totloop # 4

\* The last call was a request to cache `op` that named the key the cache held.
LastWasHit(op) ==
  /\ tls_last.op = op
  /\ tls_last.was.initialized
  /\ tls_last.was.poly = tls_last.poly
  /\ tls_last.was.corner = tls_last.corner

\* The last call named the polygon the cache held, with another corner.
LastWasOtherCorner(op) ==
  /\ tls_last.op = op
  /\ tls_last.was.initialized
  /\ tls_last.was.poly = tls_last.poly
  /\ tls_last.was.corner # tls_last.corner

\* C5: a request for the (polygon, corner) pair the vertex cache, or the loop
\* cache, was last built for runs no init, no per-corner update, no allocation
\* and no free, and leaves the cache (slots, indices, key) and its heap unchanged.
C5_CacheHitIsNoOp ==
  [][/\ (LastWasHit("vertex")' \/ LastWasHit("loop")')
        => (tls' = tls /\ tls_heap' = tls_heap)
     /\ LastWasHit("vertex")' => tls_last'.log.v = NoLog
     /\ LastWasHit("loop")' => tls_last'.log.l = NoLog]_vars

C5_Witness ==
  /\ LastWasHit("loop")
  /\ IsIrregular(tls_last.poly)
  /\ tls.loop_interpolation.storage.layers
  /\ tls.vertex_interpolation_initialized

\* C6 (as claimed): a request for another corner of the irregular polygon the
\* cache holds runs only the per-corner update: nothing is freed or allocated,
\* the centroid in slot 2 is not recomputed, and exactly slots 0, 1 and 3 are
\* rewritten.
C6_OtherCornerIsPartialUpdate ==
  /\ (LastWasOtherCorner("vertex") /\ IsIrregular(tls_last.poly))
       => /\ ~tls_last.log.v.free /\ ~tls_last.log.v.alloc /\ ~tls_last.log.v.centroid
          /\ tls_last.log.v.from_corner
          /\ tls_last.log.v.slots = {0, 1, 3}
  /\ (LastWasOtherCorner("loop") /\ IsIrregular(tls_last.poly))
       => /\ ~tls_last.log.l.free /\ ~tls_last.log.l.alloc /\ ~tls_last.log.l.centroid
          /\ tls_last.log.l.from_corner
          /\ tls_last.log.l.slots = {0, 1, 3}

\* C7: whenever a cache holds a quad, the loop cache indexes loopstart+0..3 in
\* loop order, the vertex cache indexes the vertices of those loops, the data
\* source is the coarse mesh's own layers, no scratch storage is allocated, and
\* the teardown frees nothing for that cache.
C7_QuadCacheIsIdentity ==
  /\ (tls.vertex_interpolation_initialized /\ IsQuad(tls.vertex_interpolation_coarse_poly))
       => LET poly == coarse_mesh.polys[tls.vertex_interpolation_coarse_poly]
          IN /\ \A i \in 0..3 :
                  tls.vertex_interpolation.indices[i] =
                    coarse_mesh.loops[poly.loopstart + i].v
             /\ tls.vertex_interpolation.data = "coarse_vdata"
             /\ ~tls.vertex_interpolation.storage_allocated
             /\ ~tls.vertex_interpolation.storage.layers
             /\ tls_heap.v.live = 0
             /\ tls_last.op = "free" => ~tls_last.log.v.free
  /\ (tls.loop_interpolation_initialized /\ IsQuad(tls.loop_interpolation_coarse_poly))
       => LET poly == coarse_mesh.polys[tls.loop_interpolation_coarse_poly]
          IN /\ \A i \in 0..3 : tls.loop_interpolation.indices[i] = poly.loopstart + i
             /\ tls.loop_interpolation.data = "coarse_ldata"
             /\ ~tls.loop_interpolation.storage_allocated
             /\ ~tls.loop_interpolation.storage.layers
             /\ tls_heap.l.live = 0
             /\ tls_last.op = "free" => ~tls_last.log.l.free

\* Both caches hold a quad, the vertex cache one whose loops are not numbered
\* like its vertices, and the teardown has run.
C7_Witness ==
  /\ tls_phase = "freed"
  /\ tls.vertex_interpolation_initialized /\ tls.loop_interpolation_initialized
  /\ IsQuad(tls.vertex_interpolation_coarse_poly)
  /\ IsQuad(tls.loop_interpolation_coarse_poly)
  /\ coarse_mesh.polys[tls.vertex_interpolation_coarse_poly].loopstart = 4

\* C8: each cache has at most one scratch allocation live at any time, none is
\* freed when it is not live, and none is live once the teardown has run.
C8_ScratchFreedExactlyOnce ==
  /\ tls_heap.v.live <= 1 /\ tls_heap.l.live <= 1
  /\ ~tls_heap.v.bad_free /\ ~tls_heap.l.bad_free
  /\ tls_phase = "freed" => (tls_heap.v.live = 0 /\ tls_heap.l.live = 0)

\* The teardown freed a scratch allocation of each cache.
C8_Witness ==
  /\ tls_phase = "freed"
  /\ tls_last.log.v.free /\ tls_last.log.l.free
  /\ tls_heap.v.live = 0 /\ tls_heap.l.live = 0

\* What a scratch element blends: the set of <<source element, weight>> pairs.
Blend(elem) == {<<elem.indices[i], elem.weights[i]>> : i \in DOMAIN elem.indices}

\* The source element behind loop l of the coarse mesh: the loop itself for the
\* loop cache, the loop's vertex for the vertex cache.
SourceOfLoop(op, l) == IF op = "vertex" THEN coarse_mesh.loops[l].v ELSE l

\* The four slots of an irregular polygon's ptex face at corner c: the corner,
\* the midpoint towards (c+1) mod K, the centroid, the midpoint towards
\* (c+K-1) mod K.
SlotsDescribe(op, elems, coarse_poly, c) ==
  LET poly == coarse_mesh.polys[coarse_poly]
      K == poly.totloop
      at(i) == SourceOfLoop(op, poly.loopstart + (i % K))
  IN /\ Blend(elems[0]) = {<<at(c), <<1, 1>>>>}
     /\ Blend(elems[1]) = {<<at(c), <<1, 2>>>>, <<at(c + 1), <<1, 2>>>>}
     /\ Blend(elems[2]) = {<<at(i), <<1, K>>>> : i \in 0..(K - 1)}
     /\ Blend(elems[3]) = {<<at(c), <<1, 2>>>>, <<at(c + K - 1), <<1, 2>>>>}

\* C21: after any sequence of requests the vertex cache and the loop cache are
\* keyed by the pair last requested of them, and for an irregular polygon of K
\* corners the scratch slots hold the corner c, the half-half blend of c and
\* (c+1) mod K, the 1/K blend of all K corners and the half-half blend of c and
\* (c+K-1) mod K of that pair, so nothing of an earlier pair is left in a slot.
C21_CacheDescribesLastRequest ==
  /\ tls_last.op = "vertex"
       => VertexKey(tls) = [initialized |-> TRUE, poly |-> tls_last.poly,
                            corner |-> tls_last.corner]
  /\ tls_last.op = "loop"
       => LoopKey(tls) = [initialized |-> TRUE, poly |-> tls_last.poly,
                          corner |-> tls_last.corner]
  /\ (tls_phase = "running" /\ tls.vertex_interpolation_initialized
        /\ IsIrregular(tls.vertex_interpolation_coarse_poly))
       => /\ tls.vertex_interpolation.data = "vertex_data_storage"
          /\ tls.vertex_interpolation.storage.layers
          /\ \A i \in 0..3 : tls.vertex_interpolation.indices[i] = i
          /\ SlotsDescribe("vertex", tls.vertex_interpolation.storage.elems,
                           tls.vertex_interpolation_coarse_poly,
                           tls.vertex_interpolation_coarse_corner)
  /\ (tls_phase = "running" /\ tls.loop_interpolation_initialized
        /\ IsIrregular(tls.loop_interpolation_coarse_poly))
       => /\ tls.loop_interpolation.data = "loop_data_storage"
          /\ tls.loop_interpolation.storage.layers
          /\ \A i \in 0..3 : tls.loop_interpolation.indices[i] = i
          /\ SlotsDescribe("loop", tls.loop_interpolation.storage.elems,
                           tls.loop_interpolation_coarse_poly,
                           tls.loop_interpolation_coarse_corner)

\* The vertex cache was moved from another irregular polygon to the last corner
\* of the pentagon, whose outgoing edge wraps around to loop 0 of the polygon,
\* while the loop cache holds a corner of the triangle.
C21_Witness ==
  /\ tls_last.op = "vertex" /\ tls_last.was.initialized
  /\ IsIrregular(tls_last.was.poly) /\ tls_last.was.poly # tls_last.poly
  /\ IsIrregular(tls_last.poly)
  /\ coarse_mesh.polys[tls_last.poly].totloop = 5 /\ tls_last.corner = 4
  /\ tls.loop_interpolation_initialized
  /\ IsIrregular(tls.loop_interpolation_coarse_poly)
  /\ tls.loop_interpolation_coarse_corner = 2

(***************************************************************************)
(* BKE_subdiv_to_mesh: the entry point, the driver's traversal and the     *)
(* return.                                                                 *)
(***************************************************************************)

ToMeshMeshes == {MeshEmpty, MeshTwoQuads, MeshQuadTriPent, MeshQuadWire}

Subdivs ==
  [eval_begin_ok : BOOLEAN, has_displacement_evaluator : BOOLEAN, disp : 1..MaxDisp,
   has_origindex : BOOLEAN, is_simple : {FALSE}, has_orco : BOOLEAN, has_cloth_orco : BOOLEAN]

MBundle == [ctx |-> ctx, hist |-> hist, tls |-> tls, heap |-> tls_heap, log |-> NoLogs]

\* The state after a callback that returned the bundle M.
Commit(M) ==
  /\ ctx' = M.ctx
  /\ hist' = M.hist
  /\ tls' = M.tls
  /\ tls_heap' = M.heap

\* BKE_subdiv_to_mesh that returns on the failed evaluator without ending the timer.
BKE_subdiv_to_mesh_begin_no_stats_end ==
  /\ pc = "start"
  /\ IF ~subdiv.eval_begin_ok /\ NumPolys(coarse_mesh) # 0
       THEN /\ stats' = [stats EXCEPT !.begun = @ \cup {"SUBDIV_STATS_SUBDIV_TO_MESH"}]
            /\ result' = NULL
            /\ pc' = "returned"
            /\ UNCHANGED <<ctx, foreach_context, driver, tls, tls_phase>>
       ELSE /\ stats' = [stats EXCEPT !.begun = @ \cup {"SUBDIV_STATS_SUBDIV_TO_MESH",
                                                        "SUBDIV_STATS_SUBDIV_TO_MESH_GEOMETRY"}]
            /\ ctx' = [CtxZero EXCEPT !.have_displacement = subdiv.has_displacement_evaluator]
            /\ foreach_context' = setup_foreach_callbacks(ctx')
            /\ tls' = TlsZero
            /\ tls_phase' = "running"
            /\ driver' = [DriverIdle EXCEPT !.phase = "topology"]
            /\ pc' = "foreach"
            /\ UNCHANGED result
  /\ UNCHANGED <<elemVars, tangentVars, coarse_mesh, looseVars, subdiv, hist, tls_heap, tls_last>>

\* BKE_subdiv_to_mesh that gives up on every failed evaluator setup, whatever
\* the polygon count.
BKE_subdiv_to_mesh_begin_no_totpoly_test ==
  /\ pc = "start"
  /\ IF ~subdiv.eval_begin_ok
       THEN /\ stats' = [stats EXCEPT !.begun = @ \cup {"SUBDIV_STATS_SUBDIV_TO_MESH"},
                                      !.ended = @ \cup {"SUBDIV_STATS_SUBDIV_TO_MESH"}]
            /\ result' = NULL
            /\ pc' = "returned"
            /\ UNCHANGED <<ctx, foreach_context, driver, tls, tls_phase>>
       ELSE /\ stats' = [stats EXCEPT !.begun = @ \cup {"SUBDIV_STATS_SUBDIV_TO_MESH",
                                                        "SUBDIV_STATS_SUBDIV_TO_MESH_GEOMETRY"}]
            /\ ctx' = [CtxZero EXCEPT !.have_displacement = subdiv.has_displacement_evaluator]
            /\ foreach_context' = setup_foreach_callbacks(ctx')
            /\ tls' = TlsZero
            /\ tls_phase' = "running"
            /\ driver' = [DriverIdle EXCEPT !.phase = "topology"]
            /\ pc' = "foreach"
            /\ UNCHANGED result
  /\ UNCHANGED <<elemVars, tangentVars, coarse_mesh, looseVars, subdiv, hist, tls_heap, tls_last>>

\* BKE_subdiv_to_mesh up to the call of the driver: the timer, the evaluator
\* setup (its outcome is subdiv.eval_begin_ok), the early return, the context,
\* the callback table and the zeroed tls.
BKE_subdiv_to_mesh_begin ==
  /\ pc = "start"
  /\ IF ~subdiv.eval_begin_ok /\ NumPolys(coarse_mesh) # 0
       THEN /\ stats' = [stats EXCEPT !.begun = @ \cup {"SUBDIV_STATS_SUBDIV_TO_MESH"},
                                      !.ended = @ \cup {"SUBDIV_STATS_SUBDIV_TO_MESH"}]
            /\ result' = NULL
            /\ pc' = "returned"
            /\ UNCHANGED <<ctx, foreach_context, driver, tls, tls_phase>>
       ELSE /\ stats' = [stats EXCEPT !.begun = @ \cup {"SUBDIV_STATS_SUBDIV_TO_MESH",
                                                        "SUBDIV_STATS_SUBDIV_TO_MESH_GEOMETRY"}]
            /\ ctx' = [CtxZero EXCEPT !.have_displacement = subdiv.has_displacement_evaluator]
            /\ foreach_context' = setup_foreach_callbacks(ctx')
            /\ tls' = TlsZero
            /\ tls_phase' = "running"
            /\ driver' = [DriverIdle EXCEPT !.phase = "topology"]
            /\ pc' = "foreach"
            /\ UNCHANGED result
  /\ UNCHANGED <<elemVars, tangentVars, coarse_mesh, looseVars, subdiv, hist, tls_heap, tls_last>>

\* The driver's first call: topology_info with the element counts.
Foreach_TopologyInfo ==
  /\ pc = "foreach" /\ driver.phase = "topology"
  /\ foreach_context.topology_info = "subdiv_mesh_topology_info"
  /\ Commit(subdiv_mesh_topology_info(MBundle, subdiv, NumSubdivVertices(coarse_mesh)))
  /\ driver' = [driver EXCEPT !.phase = "every_corner", !.i = 0]
  /\ UNCHANGED <<elemVars, tangentVars, coarse_mesh, looseVars, subdiv, pc, result, stats, foreach_context, tls_last, tls_phase>>

\* The every-corner pass: one call per corner of every polygon.
Foreach_EveryCorner ==
  /\ pc = "foreach" /\ driver.phase = "every_corner"
  /\ foreach_context.vertex_every_corner # NULL
  /\ driver.i < NumLoops(coarse_mesh)
  /\ Commit(SubdivForeachVertexFromCornerCb(foreach_context.vertex_every_corner, MBundle,
                                            subdiv, CornerSample(coarse_mesh, driver.i)))
  /\ driver' = [driver EXCEPT !.i = @ + 1]
  /\ UNCHANGED <<elemVars, tangentVars, coarse_mesh, looseVars, subdiv, pc, result, stats, foreach_context, tls_last, tls_phase>>

\* The every-edge pass: one call per edge of every polygon.
Foreach_EveryEdge ==
  /\ pc = "foreach" /\ driver.phase = "every_edge"
  /\ foreach_context.vertex_every_edge # NULL
  /\ driver.i < NumLoops(coarse_mesh)
  /\ Commit(SubdivForeachVertexFromEdgeCb(foreach_context.vertex_every_edge, MBundle,
                                          subdiv, coarse_mesh,
                                          EdgeSample(coarse_mesh, driver.i)))
  /\ driver' = [driver EXCEPT !.i = @ + 1]
  /\ UNCHANGED <<elemVars, tangentVars, coarse_mesh, looseVars, subdiv, pc, result, stats, foreach_context, tls_last, tls_phase>>

\* The once-per-vertex pass: the corner or edge callback on a vertex no
\* earlier polygon produced.
Foreach_SingleGeometryVertex ==
  /\ pc = "foreach" /\ driver.phase = "single"
  /\ driver.i < 2 * NumLoops(coarse_mesh)
  /\ LET item == SingleItem(coarse_mesh, driver.i)
     IN /\ item.s.subdiv_vertex_index \notin driver.used
        /\ IF item.kind = "corner"
             THEN /\ Commit(SubdivForeachVertexFromCornerCb(
                              foreach_context.vertex_corner, MBundle, subdiv, item.s))
                  /\ UNCHANGED tls_last
             ELSE LET M == SubdivForeachVertexFromEdgeCb(
                             foreach_context.vertex_edge, MBundle, subdiv, coarse_mesh, item.s)
                  IN /\ Commit(M)
                     /\ tls_last' = [op |-> "vertex", poly |-> item.s.coarse_poly_index,
                                     corner |-> item.s.coarse_corner,
                                     was |-> VertexKey(tls), log |-> M.log]
        /\ driver' = [driver EXCEPT !.i = @ + 1,
                                    !.used = @ \cup {item.s.subdiv_vertex_index}]
  /\ UNCHANGED <<elemVars, tangentVars, coarse_mesh, looseVars, subdiv, pc, result, stats, foreach_context, tls_phase>>

\* The once-per-vertex pass over a vertex an earlier polygon produced: no call.
Foreach_SingleGeometrySkip ==
  /\ pc = "foreach" /\ driver.phase = "single"
  /\ driver.i < 2 * NumLoops(coarse_mesh)
  /\ SingleItem(coarse_mesh, driver.i).s.subdiv_vertex_index \in driver.used
  /\ driver' = [driver EXCEPT !.i = @ + 1]
  /\ UNCHANGED <<elemVars, tangentVars, coarse_mesh, looseVars, subdiv, pc, result, stats, foreach_context, ctx, hist,
                 cacheVars>>

\* The interior vertex of each polygon.
Foreach_VertexInner ==
  /\ pc = "foreach" /\ driver.phase = "inner"
  /\ foreach_context.vertex_inner = "subdiv_mesh_vertex_inner"
  /\ driver.i < NumPolys(coarse_mesh)
  /\ LET s == InnerSample(coarse_mesh, driver.i)
         M == subdiv_mesh_vertex_inner(MBundle, coarse_mesh, s.ptex, s.u2, s.v2,
                                       s.coarse_poly_index, s.coarse_corner,
                                       s.subdiv_vertex_index)
     IN /\ Commit(M)
        /\ tls_last' = [op |-> "vertex", poly |-> s.coarse_poly_index,
                        corner |-> s.coarse_corner, was |-> VertexKey(tls), log |-> M.log]
  /\ driver' = [driver EXCEPT !.i = @ + 1]
  /\ UNCHANGED <<elemVars, tangentVars, coarse_mesh, looseVars, subdiv, pc, result, stats, foreach_context, tls_phase>>

\* A pass is over (or its callback is not wired): the next pass begins.  The
\* interior pass runs on a task with its own zeroed copy of the tls.
Foreach_NextPass ==
  /\ pc = "foreach"
  /\ \/ /\ driver.phase = "every_corner"
        /\ foreach_context.vertex_every_corner = NULL \/ driver.i = NumLoops(coarse_mesh)
        /\ driver' = [driver EXCEPT !.phase = "every_edge", !.i = 0]
        /\ UNCHANGED <<tls, tls_phase, queue>>
     \/ /\ driver.phase = "every_edge"
        /\ foreach_context.vertex_every_edge = NULL \/ driver.i = NumLoops(coarse_mesh)
        /\ driver' = [driver EXCEPT !.phase = "single", !.i = 0]
        /\ UNCHANGED <<tls, tls_phase, queue>>
     \/ /\ driver.phase = "single"
        /\ driver.i = 2 * NumLoops(coarse_mesh)
        /\ driver' = [driver EXCEPT !.phase = "single_tls_free", !.i = 0]
        /\ UNCHANGED <<tls, tls_phase, queue>>
     \/ /\ driver.phase = "task_tls_alloc"
        /\ driver' = [driver EXCEPT !.phase = "inner", !.i = 0]
        /\ tls' = TlsZero
        /\ tls_phase' = "running"
        /\ UNCHANGED queue
     \/ /\ driver.phase = "inner"
        /\ driver.i = NumPolys(coarse_mesh)
        /\ driver' = [driver EXCEPT !.phase = "task_tls_free", !.i = 0]
        /\ UNCHANGED <<tls, tls_phase, queue>>
     \/ /\ driver.phase = "loose_verts"
        /\ foreach_context.vertex_loose = NULL \/ driver.i = coarse_mesh.totvert
        /\ driver' = [driver EXCEPT !.phase = "loose_edges", !.i = 0]
        /\ queue' = IF foreach_context.vertex_of_loose_edge = NULL
                      THEN {}
                      ELSE DOMAIN coarse_mesh.edges \ EdgesUsed(coarse_mesh)
        /\ UNCHANGED <<tls, tls_phase>>
     \/ /\ driver.phase = "loose_edges"
        /\ queue = {}
        /\ \A w \in Workers : threads[w].pc = "idle"
        /\ driver' = [driver EXCEPT !.phase = "done", !.i = 0]
        /\ UNCHANGED <<tls, tls_phase, queue>>
  /\ UNCHANGED <<elemVars, tangentVars, coarse_mesh, subdiv, pc, result, stats, foreach_context, ctx, hist,
                 tls_heap, tls_last, coarse_verts, threads, vert_to_edge_map_mutex,
                 loose_hist>>

\* user_data_tls_free on the scratch struct of the thread that ends its work.
Foreach_TlsFree ==
  /\ pc = "foreach"
  /\ driver.phase \in {"single_tls_free", "task_tls_free"}
  /\ foreach_context.user_data_tls_free = "subdiv_mesh_tls_free"
  /\ LET M == subdiv_mesh_tls_free(MBundle)
     IN /\ Commit(M)
        /\ tls_last' = [op |-> "free", poly |-> NULL_POLY, corner |-> 0, was |-> KeyZero,
                        log |-> M.log]
  /\ tls_phase' = "freed"
  /\ driver' = [driver EXCEPT
                  !.phase = IF @ = "single_tls_free" THEN "task_tls_alloc" ELSE "loose_verts"]
  /\ UNCHANGED <<elemVars, tangentVars, coarse_mesh, looseVars, subdiv, pc, result, stats, foreach_context>>

\* The loose-vertex pass: subdiv_mesh_vertex_loose on each coarse vertex no
\* polygon uses.
Foreach_VertexLoose ==
  /\ pc = "foreach" /\ driver.phase = "loose_verts"
  /\ foreach_context.vertex_loose = "subdiv_mesh_vertex_loose"
  /\ driver.i < coarse_mesh.totvert
  /\ IF driver.i \in VerticesUsed(coarse_mesh)
       THEN UNCHANGED <<ctx, hist, tls, tls_heap>>
       ELSE Commit(subdiv_mesh_vertex_loose(MBundle, driver.i, driver.i))
  /\ driver' = [driver EXCEPT !.i = @ + 1]
  /\ UNCHANGED <<elemVars, tangentVars, coarse_mesh, looseVars, subdiv, pc, result, stats, foreach_context,
                 tls_last, tls_phase>>

\* The loose-edge pass: a worker takes one loose edge off the driver's queue;
\* it will call the callback on each of the edge's vertices in turn.
LooseEdgesTask_Take(w) ==
  /\ pc = "foreach" /\ driver.phase = "loose_edges"
  /\ threads[w].pc = "idle"
  /\ \E e \in queue :
       /\ queue' = queue \ {e}
       /\ threads' = [threads EXCEPT ![w].pc = "check", ![w].edge = e, ![w].i = 1]
  /\ UNCHANGED <<elemVars, tangentVars, coarse_mesh, cacheVars, meshVars, coarse_verts, vert_to_edge_map_mutex,
                 loose_hist>>

\* subdiv_mesh_vertex_of_loose_edge, the unlocked test of ctx->vert_to_edge_map.
\* The read is not ordered with the write another thread makes under the
\* mutex: a thread that has not taken the mutex since the map was made may
\* still read NULL.
VertexOfLooseEdge_Check(w) ==
  /\ threads[w].pc = "check"
  /\ \E seen \in {NULL, ctx.vert_to_edge_map} :
       /\ seen = NULL => (ctx.vert_to_edge_map = NULL \/ ~threads[w].synced)
       /\ threads' = [threads EXCEPT ![w].pc = IF seen = NULL THEN "lock" ELSE "interpolate"]
  /\ loose_hist' = [loose_hist EXCEPT !.calls = @ + 1]
  /\ UNCHANGED <<elemVars, tangentVars, coarse_mesh, cacheVars, meshVars, coarse_verts, vert_to_edge_map_mutex,
                 queue>>

\* std::lock_guard lock{ctx->vert_to_edge_map_mutex}
VertexOfLooseEdge_Lock(w) ==
  /\ threads[w].pc = "lock"
  /\ vert_to_edge_map_mutex = 0
  /\ vert_to_edge_map_mutex' = w
  /\ threads' = [threads EXCEPT ![w].pc = "locked"]
  /\ UNCHANGED <<elemVars, tangentVars, coarse_mesh, cacheVars, meshVars, coarse_verts, queue, loose_hist>>

\* The locked block without its own test: whoever takes the mutex builds.
VertexOfLooseEdge_CheckLocked_always_create(w) ==
  /\ threads[w].pc = "locked"
  /\ vert_to_edge_map_mutex = w
  /\ ctx' = BKE_mesh_vert_edge_map_create(ctx, coarse_mesh)
  /\ loose_hist' = [loose_hist EXCEPT !.builds = @ + 1]
  /\ vert_to_edge_map_mutex' = 0
  /\ threads' = [threads EXCEPT ![w].pc = "interpolate", ![w].synced = TRUE]
  /\ UNCHANGED <<elemVars, tangentVars, coarse_mesh, cacheVars, subdiv, pc, result, stats, foreach_context, driver,
                 hist, coarse_verts, queue>>

\* The locked block: the second test, the build when the map is still NULL,
\* and the release of the mutex at the end of the block.
VertexOfLooseEdge_CheckLocked(w) ==
  /\ threads[w].pc = "locked"
  /\ vert_to_edge_map_mutex = w
  /\ IF ctx.vert_to_edge_map = NULL
       THEN /\ ctx' = BKE_mesh_vert_edge_map_create(ctx, coarse_mesh)
            /\ loose_hist' = [loose_hist EXCEPT !.builds = @ + 1]
       ELSE UNCHANGED <<ctx, loose_hist>>
  /\ vert_to_edge_map_mutex' = 0
  /\ threads' = [threads EXCEPT ![w].pc = "interpolate", ![w].synced = TRUE]
  /\ UNCHANGED <<elemVars, tangentVars, coarse_mesh, cacheVars, subdiv, pc, result, stats, foreach_context, driver,
                 hist, coarse_verts, queue>>

\* What a thread reads in the map entry of vertex v: the entry, or, when
\* nothing orders its read after the build, possibly the entry as allocated
\* (no edge yet).
EntryViews(w, v) ==
  IF threads[w].synced
    THEN {ctx.vert_to_edge_buffer[v]}
    ELSE {ctx.vert_to_edge_buffer[v], <<>>}

\* The rest of subdiv_mesh_vertex_of_loose_edge: custom data, then position;
\* then the task goes on to the edge's next vertex or ends.
VertexOfLooseEdge_Interpolate(w) ==
  /\ threads[w].pc = "interpolate"
  /\ LET e == threads[w].edge
         u2 == LooseEdgeU2[threads[w].i]
         idx == LooseEdgeVertex(coarse_mesh, e, u2)
         v1 == coarse_mesh.edges[e].v1
         v2 == coarse_mesh.edges[e].v2
     IN \E m1 \in EntryViews(w, v1), m2 \in EntryViews(w, v2) :
          LET map == [ctx.vert_to_edge_buffer EXCEPT ![v1] = m1, ![v2] = m2]
              M == subdiv_mesh_vertex_of_loose_edge_tail(
                     MBundle, coarse_mesh, map, subdiv.is_simple, e, u2, idx)
          IN /\ Commit(M)
             /\ loose_hist' =
                  [loose_hist EXCEPT !.results = @ \cup
                     {[edge |-> e, u2 |-> u2, is_simple |-> subdiv.is_simple,
                       neighbors |-> find_edge_neighbors(coarse_mesh, map, e),
                       pos |-> M.ctx.co[idx],
                       synced |-> threads[w].synced]}]
  /\ threads' = [threads EXCEPT
                   ![w].pc = IF threads[w].i = Len(LooseEdgeU2) THEN "idle" ELSE "check",
                   ![w].i = IF threads[w].i = Len(LooseEdgeU2) THEN 1 ELSE @ + 1]
  /\ UNCHANGED <<elemVars, tangentVars, coarse_mesh, subdiv, pc, result, stats, foreach_context, driver,
                 tls_last, tls_phase, coarse_verts, vert_to_edge_map_mutex, queue>>

\* BKE_subdiv_to_mesh after the driver returned.
BKE_subdiv_to_mesh_end ==
  /\ pc = "foreach" /\ driver.phase = "done"
  /\ stats' = [stats EXCEPT !.ended = @ \cup {"SUBDIV_STATS_SUBDIV_TO_MESH_GEOMETRY",
                                              "SUBDIV_STATS_SUBDIV_TO_MESH"}]
  /\ result' = ctx.subdiv_mesh
  /\ ctx' = subdiv_mesh_context_free(ctx)
  /\ pc' = "returned"
  /\ UNCHANGED <<elemVars, tangentVars, coarse_mesh, looseVars, subdiv, foreach_context, driver, hist, cacheVars>>

InitToMesh ==
  /\ coarse_mesh \in ToMeshMeshes
  /\ subdiv \in Subdivs
  /\ pc = "start"
  /\ result = "unset"
  /\ stats = [begun |-> {}, ended |-> {}]
  /\ ctx = CtxZero
  /\ foreach_context = ForeachZero
  /\ driver = DriverIdle
  /\ hist = HistZero
  /\ CacheIdle
  /\ LooseIdle
  /\ TangentIdle
  /\ ElemIdle

NextToMesh ==
  \/ BKE_subdiv_to_mesh_begin
  \/ Foreach_TopologyInfo
  \/ Foreach_EveryCorner
  \/ Foreach_EveryEdge
  \/ Foreach_SingleGeometryVertex
  \/ Foreach_SingleGeometrySkip
  \/ Foreach_VertexInner
  \/ Foreach_NextPass
  \/ Foreach_TlsFree
  \/ Foreach_VertexLoose
  \/ \E w \in Workers : LooseEdgesTask_Take(w)
  \/ \E w \in Workers : VertexOfLooseEdge_Check(w)
  \/ \E w \in Workers : VertexOfLooseEdge_Lock(w)
  \/ \E w \in Workers : VertexOfLooseEdge_CheckLocked(w)
  \/ \E w \in Workers : VertexOfLooseEdge_Interpolate(w)
  \/ BKE_subdiv_to_mesh_end

SpecToMesh == InitToMesh /\ [][NextToMesh]_vars

(***************************************************************************)
(* Properties of BKE_subdiv_to_mesh.                                       *)
(***************************************************************************)

EvalFailed == ~subdiv.eval_begin_ok

\* C1: when the evaluator setup fails on a coarse mesh with at least one
\* polygon, the call returns NULL at once: the driver never leaves idle, no
\* output mesh, counter array or vertex-to-edge map exists, and every timer
\* that was begun has been ended.
C1_FailedEvalOnPolysReturnsNull ==
  (EvalFailed /\ NumPolys(coarse_mesh) >= 1 /\ pc # "start")
    => /\ pc = "returned"
       /\ result = NULL
       /\ driver = DriverIdle
       /\ foreach_context = ForeachZero
       /\ ctx.subdiv_mesh = NULL
       /\ ~ctx.accumulated_counters.allocated
       /\ ctx.vert_to_edge_map = NULL
       /\ hist = HistZero
       /\ stats.begun = {"SUBDIV_STATS_SUBDIV_TO_MESH"}
       /\ stats.ended = stats.begun

C1_Witness ==
  /\ EvalFailed
  /\ NumPolys(coarse_mesh) >= 1
  /\ pc = "returned"
  /\ result = NULL

\* C2: when the evaluator setup fails on a coarse mesh without polygons, the
\* call goes on: once it has returned, the driver has run to its end and the
\* result is the mesh the topology callback made.
C2_FailedEvalOnEmptyMeshGoesOn ==
  (EvalFailed /\ NumPolys(coarse_mesh) = 0)
    => /\ pc = "returned" => (result = "mesh" /\ driver.phase = "done")
       /\ result # NULL

C2_Witness ==
  /\ EvalFailed
  /\ NumPolys(coarse_mesh) = 0
  /\ pc = "returned"
  /\ result = "mesh"
  /\ driver.phase = "done"

\* The output vertices the corner or edge callback has finished.
BoundaryDone ==
  {v \in DOMAIN hist.final : hist.final[v].done /\ hist.final[v].kind \in {"corner", "edge"}}

\* C3: with a displacement function, a boundary vertex that took the samples
\* D1..DN (N >= 1) and then its corner or edge callback stands at the limit
\* point that callback evaluated plus (D1 + ... + DN) / N.
C3_DisplacementIsAveraged ==
  ctx.have_displacement =>
    \A v \in BoundaryDone \cap DOMAIN ctx.co :
      LET N == Len(hist.samples[v])
          f == hist.final[v]
          P == BKE_subdiv_eval_limit_point(f.ptex, f.u2, f.v2)
      IN N >= 1 => /\ RatFinite(ctx.co[v])
                   /\ RatEq(ctx.co[v], [num |-> P * N + SumSeq(hist.samples[v]), den |-> N])

\* A vertex shared by two polygons has been finished: N >= 2 and the samples'
\* sum differs from their average.
C3_Witness ==
  /\ ctx.have_displacement
  /\ \E v \in BoundaryDone \cap DOMAIN ctx.co :
       /\ Len(hist.samples[v]) >= 2
       /\ ctx.co[v].den # 0

\* The number of every-corner and every-edge calls the traversal makes on the
\* output vertex v.
ExpectedSamples(v) ==
  Cardinality({l \in DOMAIN coarse_mesh.loops :
                 CornerSample(coarse_mesh, l).subdiv_vertex_index = v})
  + Cardinality({l \in DOMAIN coarse_mesh.loops :
                   EdgeSample(coarse_mesh, l).subdiv_vertex_index = v})

\* C4: in a run with displacement, when the corner or edge callback runs on a
\* vertex every accumulation into it has been made, and no later step
\* accumulates into it again.
C4_AccumulationPrecedesFinal ==
  /\ [](ctx.have_displacement =>
          \A v \in BoundaryDone : Len(hist.samples[v]) = ExpectedSamples(v))
  /\ [][ctx.have_displacement =>
          \A v \in BoundaryDone :
            /\ v \in DOMAIN hist'.samples
            /\ hist'.samples[v] = hist.samples[v]
            /\ hist'.final[v] = hist.final[v]]_vars

C4_Witness ==
  /\ ctx.have_displacement
  /\ pc = "returned"
  /\ \E v \in BoundaryDone : Len(hist.samples[v]) >= 2
  /\ \A v \in DOMAIN hist.final : hist.final[v].done

\* The traversal is under way and the topology callback has made the output mesh.
Traversing == pc = "foreach" /\ ctx.subdiv_mesh # NULL

\* C26: in a run whose evaluator has a displacement function the every-corner
\* and every-edge callbacks are wired, the counter array exists during the
\* traversal and counts, from zero, the samples each vertex took, and a
\* finished boundary vertex stands at its limit point plus the samples' sum
\* divided by the counter; in a run without one neither callback is wired, no
\* counter array exists, no sample is taken and a finished boundary vertex
\* stands at its limit point.
C26_DisplacementAllOrNothing ==
  foreach_context # ForeachZero =>
    /\ ctx.have_displacement = subdiv.has_displacement_evaluator
    /\ IF subdiv.has_displacement_evaluator
         THEN /\ foreach_context.vertex_every_corner =
                   "subdiv_mesh_vertex_displacement_every_corner"
              /\ foreach_context.vertex_every_edge =
                   "subdiv_mesh_vertex_displacement_every_edge"
              /\ Traversing =>
                   /\ ctx.accumulated_counters.allocated
                   /\ \A v \in DOMAIN ctx.co :
                        ctx.accumulated_counters.n[v] = Len(hist.samples[v])
              /\ \A v \in BoundaryDone \cap DOMAIN ctx.co :
                   LET f == hist.final[v]
                       N == Len(hist.samples[v])
                   IN N >= 1 =>
                        RatEq(ctx.co[v],
                              [num |-> BKE_subdiv_eval_limit_point(f.ptex, f.u2, f.v2) * N
                                       + SumSeq(hist.samples[v]),
                               den |-> N])
         ELSE /\ foreach_context.vertex_every_corner = NULL
              /\ foreach_context.vertex_every_edge = NULL
              /\ ~ctx.accumulated_counters.allocated
              /\ \A v \in DOMAIN hist.samples : hist.samples[v] = <<>>
              /\ \A v \in BoundaryDone \cap DOMAIN ctx.co :
                   LET f == hist.final[v]
                   IN ctx.co[v] = Rat(BKE_subdiv_eval_limit_point(f.ptex, f.u2, f.v2))

\* A traversal with displacement has finished a vertex that took two samples
\* or more, the counters still allocated.
C26_Witness ==
  /\ Traversing /\ subdiv.has_displacement_evaluator
  /\ ctx.accumulated_counters.allocated
  /\ \E v \in BoundaryDone :
       /\ ctx.accumulated_counters.n[v] >= 2
       /\ ~RatEq(ctx.co[v], Rat(BKE_subdiv_eval_limit_point(
                                  hist.final[v].ptex, hist.final[v].u2, hist.final[v].v2)))

(***************************************************************************)
(* The traversal of a mesh of loose elements: the loose-vertex pass, then  *)
(* the loose-edge pass on the worker threads.                              *)
(***************************************************************************)

LooseMeshes ==
  {MeshPoints, MeshEmpty, MeshWireChain, MeshWireChainIn, MeshWireChainOut, MeshWireStar}

MaxCurve == 1

\* The coarse vertex v stands at v + s * v * v: evenly spaced for s = 0.
LooseCoords(mesh) ==
  {[v \in 0..(mesh.totvert - 1) |-> v + s * v * v] : s \in 0..MaxCurve}

LooseSubdivs ==
  [eval_begin_ok : {TRUE}, has_displacement_evaluator : {FALSE}, disp : {1},
   has_origindex : BOOLEAN, is_simple : BOOLEAN, has_orco : {FALSE}, has_cloth_orco : {FALSE}]

InitLoose ==
  /\ coarse_mesh \in LooseMeshes
  /\ subdiv \in LooseSubdivs
  /\ pc = "start"
  /\ result = "unset"
  /\ stats = [begun |-> {}, ended |-> {}]
  /\ ctx = CtxZero
  /\ foreach_context = ForeachZero
  /\ driver = DriverIdle
  /\ hist = HistZero
  /\ CacheIdle
  /\ coarse_verts \in LooseCoords(coarse_mesh)
  /\ threads = [w \in Workers |-> ThreadIdle]
  /\ vert_to_edge_map_mutex = 0
  /\ queue = {}
  /\ loose_hist = LooseHistZero
  /\ TangentIdle
  /\ ElemIdle

NextLoose ==
  \/ BKE_subdiv_to_mesh_begin
  \/ Foreach_TopologyInfo
  \/ Foreach_NextPass
  \/ Foreach_TlsFree
  \/ Foreach_VertexLoose
  \/ \E w \in Workers : LooseEdgesTask_Take(w)
  \/ \E w \in Workers : VertexOfLooseEdge_Check(w)
  \/ \E w \in Workers : VertexOfLooseEdge_Lock(w)
  \/ \E w \in Workers : VertexOfLooseEdge_CheckLocked(w)
  \/ \E w \in Workers : VertexOfLooseEdge_Interpolate(w)
  \/ BKE_subdiv_to_mesh_end

SpecLoose == InitLoose /\ [][NextLoose]_vars

\* C9: however the workers interleave, the vertex-to-edge map is built at
\* most once, only by a loose-edge vertex callback, and it stays NULL while
\* no such callback has been called.
C9_MapBuiltAtMostOnce ==
  /\ loose_hist.builds <= 1
  /\ loose_hist.builds >= 1 => loose_hist.calls >= 1
  /\ loose_hist.calls = 0 =>
       (ctx.vert_to_edge_map = NULL /\ ctx.vert_to_edge_buffer = NoArray)
  /\ (ctx.vert_to_edge_map # NULL) => loose_hist.builds = 1

\* Both workers found the map NULL at the unlocked test and went through the
\* mutex; one build was made.
C9_Witness ==
  /\ \A w \in Workers : threads[w].synced
  /\ loose_hist.builds = 1
  /\ loose_hist.calls >= 2

\* The position of the coarse end vertex a result belongs to.
EndPoint(r) ==
  IF r.u2 = 0
    THEN coarse_verts[coarse_mesh.edges[r.edge].v1]
    ELSE coarse_verts[coarse_mesh.edges[r.edge].v2]

OtherEndPoint(r) ==
  IF r.u2 = 0
    THEN coarse_verts[coarse_mesh.edges[r.edge].v2]
    ELSE coarse_verts[coarse_mesh.edges[r.edge].v1]

\* The neighbour the search found at the end a result belongs to.
EndNeighbor(r) == IF r.u2 = 0 THEN r.neighbors[1] ELSE r.neighbors[2]

\* The far vertex's position of the neighbour n at the vertex v.
FarPoint(n, v) ==
  IF coarse_mesh.edges[n].v1 = v
    THEN coarse_verts[coarse_mesh.edges[n].v2]
    ELSE coarse_verts[coarse_mesh.edges[n].v1]

EndResults == {r \in loose_hist.results : r.u2 = 0 \/ r.u2 = 2}

LooseEdgeStep(w) == threads[w].pc = "interpolate" /\ threads'[w] # threads[w]

\* C23: a call of the loose-edge vertex callback for the vertex at u of an edge
\* writes the position the edge interpolation gives, at every u, u = 0 and
\* u = 1 included; it writes the vertex's custom data, blended (1-u, u) from
\* the edge's two end vertices, and its origin index only for 0 < u < 1, and
\* leaves both as they were at u = 0 and u = 1.  No other vertex is touched.
C23_LooseEdgeVertexFrame ==
  [][\A w \in Workers : LooseEdgeStep(w) =>
       LET e == threads[w].edge
           u2 == LooseEdgeU2[threads[w].i]
           idx == LooseEdgeVertex(coarse_mesh, e, u2)
           v1 == coarse_mesh.edges[e].v1
           v2 == coarse_mesh.edges[e].v2
       IN /\ hist'.writes[idx] = Append(hist.writes[idx], "loose_edge")
          /\ \E m1 \in EntryViews(w, v1), m2 \in EntryViews(w, v2) :
               ctx'.co[idx] =
                 BKE_subdiv_mesh_interpolate_position_on_edge(
                   coarse_verts, coarse_mesh,
                   [ctx.vert_to_edge_buffer EXCEPT ![v1] = m1, ![v2] = m2],
                   e, subdiv.is_simple, u2)
          /\ IF u2 = 0 \/ u2 = 2
               THEN /\ ctx'.vdata[idx] = ctx.vdata[idx]
                    /\ ctx'.vert_origindex = ctx.vert_origindex
               ELSE /\ ctx'.vdata[idx] =
                         OutElem("coarse_vdata", <<v1, v2>>, <<(<<2 - u2, 2>>), (<<u2, 2>>)>>)
                    /\ ctx.vert_origindex.present
                         => ctx'.vert_origindex.val[idx] = ORIGINDEX_NONE
          /\ \A v \in DOMAIN ctx.vdata : v # idx =>
               /\ ctx'.vdata[v] = ctx.vdata[v]
               /\ ctx'.co[v] = ctx.co[v]
               /\ ctx'.vert_origindex.val[v] = ctx.vert_origindex.val[v]]_vars

\* A finished B-spline traversal with origin indices: an end vertex of a loose
\* edge was written by the loose-vertex callback and again by the loose-edge
\* callback, which moved it off its coarse position and left its custom data
\* and origin index, and the edge's inner vertex holds the blended data.
C23_Witness ==
  /\ pc = "returned" /\ ~subdiv.is_simple /\ ctx.vert_origindex.present
  /\ \E e \in DOMAIN coarse_mesh.edges :
       LET v2 == coarse_mesh.edges[e].v2
           mid == LooseEdgeVertex(coarse_mesh, e, 1)
       IN /\ hist.writes[v2][Len(hist.writes[v2])] = "loose_edge"
          /\ Len(hist.writes[v2]) >= 2
          /\ ~RatEq(ctx.co[v2], Rat(coarse_verts[v2]))
          /\ ctx.vdata[v2] = OutElem("coarse_vdata", <<v2>>, <<(<<1, 1>>)>>)
          /\ ctx.vert_origindex.val[v2] = v2
          /\ ctx.vdata[mid] =
               OutElem("coarse_vdata", <<coarse_mesh.edges[e].v1, v2>>,
                       <<(<<1, 2>>), (<<1, 2>>)>>)
          /\ ctx.vert_origindex.val[mid] = ORIGINDEX_NONE

\* The vertex-to-edge map of the coarse mesh, completely built.
BuiltMap == BKE_mesh_vert_edge_map_create(CtxZero, coarse_mesh).vert_to_edge_buffer

\* C27 (as claimed): however the workers interleave, a worker at the
\* neighbour search finds the map non-null and searches the completely built
\* map, and no worker that interpolates holds the mutex.
C27_SearchReadsBuiltMap ==
  /\ \A w \in Workers :
       threads[w].pc = "interpolate" =>
         /\ ctx.vert_to_edge_map # NULL
         /\ vert_to_edge_map_mutex # w
  /\ \A r \in loose_hist.results :
       r.neighbors = find_edge_neighbors(coarse_mesh, BuiltMap, r.edge)

\* What holds of the workers whose read is ordered after the build, those that
\* went through the mutex.
SyncedSearchReadsBuiltMap ==
  /\ \A w \in Workers :
       threads[w].pc = "interpolate" =>
         /\ ctx.vert_to_edge_map # NULL
         /\ vert_to_edge_map_mutex # w
  /\ \A r \in loose_hist.results :
       r.synced => r.neighbors = find_edge_neighbors(coarse_mesh, BuiltMap, r.edge)

(***************************************************************************)
(* BKE_subdiv_mesh_interpolate_position_on_edge on its own: the map is     *)
(* built, and the function is applied to any edge, branch and u; the last  *)
(* MaxResults calls are kept.                                              *)
(***************************************************************************)

PositionMeshes ==
  {MeshWireChain, MeshWireChainIn, MeshWireChainOut, MeshWireStar, MeshWireFork}

MaxResults == 2

EdgeIds == 0..3

InitPosition ==
  /\ coarse_mesh \in PositionMeshes
  /\ subdiv = [eval_begin_ok |-> TRUE, has_displacement_evaluator |-> FALSE, disp |-> 1,
               has_origindex |-> FALSE, is_simple |-> FALSE, has_orco |-> FALSE,
               has_cloth_orco |-> FALSE]
  /\ pc = "start"
  /\ result = "unset"
  /\ stats = [begun |-> {}, ended |-> {}]
  /\ ctx = BKE_mesh_vert_edge_map_create(CtxZero, coarse_mesh)
  /\ foreach_context = ForeachZero
  /\ driver = DriverIdle
  /\ hist = HistZero
  /\ CacheIdle
  /\ coarse_verts \in LooseCoords(coarse_mesh)
  /\ threads = [w \in Workers |-> ThreadIdle]
  /\ vert_to_edge_map_mutex = 0
  /\ queue = {}
  /\ loose_hist = LooseHistZero
  /\ TangentIdle
  /\ ElemIdle

InterpolatePositionOnEdge(coarse_edge_index, is_simple, u2) ==
  /\ coarse_edge_index \in DOMAIN coarse_mesh.edges
  /\ Cardinality(loose_hist.results) < MaxResults
  /\ LET coarse_edge == coarse_mesh.edges[coarse_edge_index]
         map == ctx.vert_to_edge_buffer
         neighbors == find_edge_neighbors(coarse_mesh, map, coarse_edge_index)
     IN loose_hist' =
          [loose_hist EXCEPT
             !.results = @ \cup
               {[edge |-> coarse_edge_index, u2 |-> u2, is_simple |-> is_simple,
                 neighbors |-> neighbors,
                 entries |-> <<map[coarse_edge.v1], map[coarse_edge.v2]>>,
                 points |-> IF is_simple
                              THEN <<>>
                              ELSE points_for_loose_edges_interpolation_get(
                                     coarse_verts, coarse_mesh, coarse_edge, neighbors),
                 pos |-> BKE_subdiv_mesh_interpolate_position_on_edge(
                           coarse_verts, coarse_mesh, map, coarse_edge_index, is_simple, u2),
                 synced |-> TRUE]}]
  /\ UNCHANGED <<elemVars, tangentVars, coarse_mesh, cacheVars, meshVars, coarse_verts, threads,
                 vert_to_edge_map_mutex, queue>>

\* The history is cleared for further calls.
ForgetResults ==
  /\ loose_hist.results # {}
  /\ loose_hist' = LooseHistZero
  /\ UNCHANGED <<elemVars, tangentVars, coarse_mesh, cacheVars, meshVars, coarse_verts, threads,
                 vert_to_edge_map_mutex, queue>>

NextPosition ==
  \/ \E e \in EdgeIds, is_simple \in BOOLEAN, i \in DOMAIN LooseEdgeU2 :
       InterpolatePositionOnEdge(e, is_simple, LooseEdgeU2[i])
  \/ ForgetResults

SpecPosition == InitPosition /\ [][NextPosition]_vars

\* The edges other than the result's own in the map entry read for its end k
\* (1 for v1, 2 for v2).
OtherEdges(r, k) == SelectSeq(r.entries[k], LAMBDA i : i # r.edge)

\* The coarse vertex at end k of the result's edge, and the one at the other end.
NearVertex(r, k) ==
  IF k = 1 THEN coarse_mesh.edges[r.edge].v1 ELSE coarse_mesh.edges[r.edge].v2

FarVertex(r, k) ==
  IF k = 1 THEN coarse_mesh.edges[r.edge].v2 ELSE coarse_mesh.edges[r.edge].v1

\* The outer control point at end k: points_r[0] for v1, points_r[3] for v2.
OuterPoint(r, k) == IF k = 1 THEN r.points[1] ELSE r.points[4]

AtEnd(r, k) == ~r.is_simple /\ r.u2 = (IF k = 1 THEN 0 ELSE 2)

\* The results r1 and r2 are positions of one coarse vertex, computed from
\* two edges that are the only ones to touch it.
SharedEndpoint(r1, k1, r2, k2) ==
  /\ r1.edge # r2.edge
  /\ AtEnd(r1, k1) /\ AtEnd(r2, k2)
  /\ NearVertex(r1, k1) = NearVertex(r2, k2)
  /\ Len(r1.entries[k1]) = 2

\* C30: the B-spline position of a coarse vertex shared by exactly two loose
\* edges is the same computed from either edge, at the end of each edge that
\* is the vertex, for every orientation of the two edges.
C30_SharedEndpointSamePosition ==
  \A r1, r2 \in loose_hist.results : \A k1, k2 \in {1, 2} :
    SharedEndpoint(r1, k1, r2, k2) => RatEq(r1.pos, r2.pos)

\* Two edges that both end at the shared vertex, with the three vertices
\* unevenly spaced, have given it one position, which is not the vertex's own.
C30_Witness ==
  \E r1, r2 \in loose_hist.results :
    /\ SharedEndpoint(r1, 2, r2, 2)
    /\ RatEq(r1.pos, r2.pos)
    /\ coarse_verts[FarVertex(r1, 2)] + coarse_verts[FarVertex(r2, 2)]
         # 2 * coarse_verts[NearVertex(r1, 2)]
    /\ ~RatEq(r1.pos, [num |-> coarse_verts[NearVertex(r1, 2)], den |-> 1])

(***************************************************************************)
(* The edge callback under a driver that hands every output edge once, in  *)
(* any order, with or without a coarse source.                             *)
(***************************************************************************)

EdgeSlots == {0, 1}

\* The end vertices the driver supplies.
EdgeEnds == {<<0, 1>>, <<2, 1>>}

CoarseEdgeIds == 0..6

NoEdgeCall == [called |-> FALSE, coarse_edge_index |-> ORIGINDEX_NONE, subdiv_v1 |-> 0, subdiv_v2 |-> 0]

InitEdges ==
  /\ coarse_mesh = MeshTwoQuads
  /\ CacheIdle
  /\ MeshIdle
  /\ LooseIdle
  /\ TangentIdle
  /\ settings \in [use_optimal_display : BOOLEAN]
  /\ subdiv_edges = [i \in EdgeSlots |-> EdgeZero]
  /\ edge_origindex \in {[present |-> b, val |-> [i \in EdgeSlots |-> ORIGINDEX_NONE]] : b \in BOOLEAN}
  /\ subdiv_loops = Arr(<<>>)
  /\ subdiv_ldata = Arr(<<>>)
  /\ uv_layers = <<>>
  /\ elem_hist = [edges |-> [i \in EdgeSlots |-> NoEdgeCall], loops |-> Arr(<<>>)]

Foreach_Edge(coarse_edge_index, subdiv_edge_index, ends) ==
  /\ coarse_edge_index = ORIGINDEX_NONE \/ coarse_edge_index \in DOMAIN coarse_mesh.edges
  /\ ~elem_hist.edges[subdiv_edge_index].called
  /\ LET E == subdiv_mesh_edge(EdgeBundle, settings.use_optimal_display, coarse_edge_index,
                               subdiv_edge_index, ends[1], ends[2])
     IN /\ subdiv_edges' = E.subdiv_edges
        /\ edge_origindex' = E.edge_origindex
  /\ elem_hist' = [elem_hist EXCEPT !.edges[subdiv_edge_index] =
                     [called |-> TRUE, coarse_edge_index |-> coarse_edge_index,
                      subdiv_v1 |-> ends[1], subdiv_v2 |-> ends[2]]]
  /\ UNCHANGED <<tangentVars, coarse_mesh, cacheVars, meshVars, looseVars, settings,
                 subdiv_loops, subdiv_ldata, uv_layers>>

NextEdges ==
  \E coarse_edge_index \in CoarseEdgeIds \cup {ORIGINDEX_NONE}, i \in EdgeSlots, ends \in EdgeEnds :
    Foreach_Edge(coarse_edge_index, i, ends)

SpecEdges == InitEdges /\ [][NextEdges]_vars

\* C24: an output edge handed out with a coarse edge has the renderable flag
\* set, with optimal display on or off; one handed out without a coarse edge
\* has no flag but, exactly when optimal display is off, the renderable one,
\* and its origin index (where the layer exists) is NONE; either way its two
\* vertices are the ones the driver supplied.
C24_EdgeFlagsAndEnds ==
  \A i \in DOMAIN subdiv_edges :
    LET call == elem_hist.edges[i]
    IN call.called =>
         /\ subdiv_edges[i].v1 = call.subdiv_v1
         /\ subdiv_edges[i].v2 = call.subdiv_v2
         /\ IF call.coarse_edge_index # ORIGINDEX_NONE
              THEN ME_EDGERENDER \in subdiv_edges[i].flag
              ELSE /\ subdiv_edges[i].flag \ {ME_EDGERENDER} = {}
                   /\ (ME_EDGERENDER \in subdiv_edges[i].flag) <=> ~settings.use_optimal_display
                   /\ edge_origindex.present => edge_origindex.val[i] = ORIGINDEX_NONE

\* With optimal display on: an edge copied from a coarse edge that is not
\* renderable itself came out renderable, and a synthesized edge came out
\* with no flag and no origin.
C24_Witness ==
  /\ settings.use_optimal_display /\ edge_origindex.present
  /\ \E i, j \in DOMAIN subdiv_edges :
       /\ elem_hist.edges[i].called /\ elem_hist.edges[j].called
       /\ elem_hist.edges[i].coarse_edge_index # ORIGINDEX_NONE
       /\ ME_EDGERENDER \notin CoarseEdgeFlag(elem_hist.edges[i].coarse_edge_index)
       /\ subdiv_edges[i].flag = {"ME_SEAM", ME_EDGERENDER}
       /\ subdiv_edges[i].v1 = 2
       /\ elem_hist.edges[j].coarse_edge_index = ORIGINDEX_NONE
       /\ subdiv_edges[j].flag = {}
       /\ edge_origindex.val[j] = ORIGINDEX_NONE

(***************************************************************************)
(* The loop callback on one worker, under a driver that hands every output *)
(* loop once, in any order.                                                *)
(***************************************************************************)

LoopSlots == {0, 1}

\* (u, v) in halves, and the (vertex, edge) pairs the driver supplies.
LoopSamples == {<<0, 0>>, <<2, 0>>, <<1, 1>>, <<1, 2>>}

LoopTargets == {<<3, 5>>, <<4, 2>>}

MaxUvLayers == 2

PolyIds == 0..2

CornerIds == 0..4

NoLoopCall ==
  [called |-> FALSE, ptex_face_index |-> 0, u2 |-> 0, v2 |-> 0, coarse_poly_index |-> 0,
   subdiv_vertex_index |-> 0, subdiv_edge_index |-> 0]

InitLoops ==
  /\ coarse_mesh = MeshQuadTriPent
  /\ CacheIdle
  /\ MeshIdle
  /\ LooseIdle
  /\ TangentIdle
  /\ settings = [use_optimal_display |-> FALSE]
  /\ subdiv_edges = Arr(<<>>)
  /\ edge_origindex = [present |-> FALSE, val |-> Arr(<<>>)]
  /\ subdiv_loops = [i \in LoopSlots |-> LoopZero]
  /\ subdiv_ldata = [i \in LoopSlots |-> OutElem(NULL, <<>>, <<>>)]
  /\ uv_layers \in {[layer_index \in 1..n |-> [i \in LoopSlots |-> UvDefault]] : n \in 0..MaxUvLayers}
  /\ elem_hist = [edges |-> Arr(<<>>), loops |-> [i \in LoopSlots |-> NoLoopCall]]

Foreach_Loop(coarse_poly_index, coarse_corner, sample, subdiv_loop_index, target) ==
  /\ coarse_poly_index \in DOMAIN coarse_mesh.polys
  /\ coarse_corner \in Corners(coarse_mesh, coarse_poly_index)
  /\ ~elem_hist.loops[subdiv_loop_index].called
  /\ LET ptex_face_index ==
           PtexOffset(coarse_mesh, coarse_poly_index)
           + (IF coarse_mesh.polys[coarse_poly_index].totloop = 4 THEN 0 ELSE coarse_corner)
         L == subdiv_mesh_loop(LoopBundle, coarse_mesh, ptex_face_index, sample[1], sample[2],
                               coarse_poly_index, coarse_corner, subdiv_loop_index,
                               target[1], target[2])
     IN /\ tls' = L.tls
        /\ tls_heap' = L.heap
        /\ tls_last' = [op |-> "loop", poly |-> coarse_poly_index, corner |-> coarse_corner,
                        was |-> LoopKey(tls), log |-> L.log]
        /\ subdiv_loops' = L.subdiv_loops
        /\ subdiv_ldata' = L.subdiv_ldata
        /\ uv_layers' = L.uv_layers
        /\ elem_hist' = [elem_hist EXCEPT !.loops[subdiv_loop_index] =
                           [called |-> TRUE, ptex_face_index |-> ptex_face_index,
                            u2 |-> sample[1], v2 |-> sample[2],
                            coarse_poly_index |-> coarse_poly_index,
                            subdiv_vertex_index |-> target[1],
                            subdiv_edge_index |-> target[2]]]
  /\ UNCHANGED <<tangentVars, coarse_mesh, tls_phase, meshVars, looseVars, settings,
                 subdiv_edges, edge_origindex>>

NextLoops ==
  \E p \in PolyIds, c \in CornerIds, sample \in LoopSamples, i \in LoopSlots, target \in LoopTargets :
    Foreach_Loop(p, c, sample, i, target)

SpecLoops == InitLoops /\ [][NextLoops]_vars

\* C25: an output loop the callback has written holds the bilinear blend of
\* the loop cache in its custom data, and in every UV layer the evaluator's
\* face-varying sample at (layer, ptex, u, v) of the call, which was written
\* after the blend and so replaced the blended UV; its vertex and its edge are
\* the ones the driver supplied.
C25_UvIsFaceVaryingSample ==
  \A i \in DOMAIN subdiv_loops :
    LET call == elem_hist.loops[i]
    IN call.called =>
         /\ subdiv_loops[i] = [v |-> call.subdiv_vertex_index, e |-> call.subdiv_edge_index]
         /\ subdiv_ldata[i].weights = BilinearWeights(call.u2, call.v2)
         /\ subdiv_ldata[i].data =
              (IF IsQuad(call.coarse_poly_index) THEN "coarse_ldata" ELSE "loop_data_storage")
         /\ \A layer_index \in DOMAIN uv_layers :
              /\ uv_layers[layer_index][i] # UvInterpolated
              /\ uv_layers[layer_index][i] =
                   BKE_subdiv_eval_face_varying(layer_index - 1, call.ptex_face_index,
                                                call.u2, call.v2)

\* Two UV layers; a loop of a quad and a loop inside a corner of the pentagon
\* are written, each layer holding its own sample for each.
C25_Witness ==
  /\ Len(uv_layers) = 2
  /\ \E i, j \in DOMAIN subdiv_loops :
       /\ elem_hist.loops[i].called /\ elem_hist.loops[j].called
       /\ IsQuad(elem_hist.loops[i].coarse_poly_index)
       /\ coarse_mesh.polys[elem_hist.loops[j].coarse_poly_index].totloop = 5
       /\ elem_hist.loops[j].u2 = 1 /\ elem_hist.loops[j].v2 = 2
       /\ uv_layers[1][j].src = "face_varying" /\ uv_layers[2][j].src = "face_varying"
       /\ uv_layers[1][j] # uv_layers[2][j]
       /\ uv_layers[1][i] # uv_layers[1][j]
       /\ subdiv_loops[j] = [v |-> 4, e |-> 2]

(***************************************************************************)
(* Properties of the finished output mesh.                                 *)
(***************************************************************************)

QuadsOnly == \A p \in DOMAIN coarse_mesh.polys : coarse_mesh.polys[p].totloop = 4

\* The output vertices whose face-dot bit is set.
FaceDots == {v \in DOMAIN ctx.face_dot_tags : ctx.face_dot_tags[v]}

Interpolated ==
  {v \in DOMAIN hist.writes :
     \E k \in DOMAIN hist.writes[v] :
       \/ hist.writes[v][k] \in {"edge", "inner"}
       \/ hist.writes[v][k] = "loose_edge" /\ v >= coarse_mesh.totvert}

\* C12: when the output mesh has a vertex origin-index layer, from the moment
\* the edge callback, the interior callback or the loose-edge callback with
\* 0 < u < 1 has written a vertex, to the end of the call, the vertex's
\* origin index is NONE.
C12_InterpolatedVerticesHaveNoOrigin ==
  ctx.vert_origindex.present =>
    \A v \in Interpolated : ctx.vert_origindex.val[v] = ORIGINDEX_NONE

C12_Witness ==
  /\ pc = "returned"
  /\ ctx.vert_origindex.present
  /\ \E v \in Interpolated : hist.writes[v] = <<"edge">>
  /\ \E v \in Interpolated : hist.writes[v] = <<"inner">>
  /\ \E v \in Interpolated : hist.writes[v] = <<"loose_edge">>
  /\ \E v \in DOMAIN hist.writes : v \notin Interpolated /\ ctx.vert_origindex.val[v] = v

\* C13: apart from the displacement pre-pass, every output vertex is written
\* by one callback call: never by a second one, and by one when the call has
\* returned its mesh.
C13_EachVertexWrittenOnce ==
  \A v \in DOMAIN hist.writes :
    /\ Len(hist.writes[v]) <= 1
    /\ (pc = "returned" /\ result = "mesh") => Len(hist.writes[v]) = 1

(***************************************************************************)
(* The single-layer tangent functions under a sequence of calls on one     *)
(* mesh with one output array: BKE_mesh_calc_loop_tangent_single_ex with   *)
(* the caller's own normal and UV arrays, BKE_mesh_calc_loop_tangent_single *)
(* with a UV map name or none.                                             *)
(***************************************************************************)

MaxCalls == 2

TangentSizes == {<<>>, <<3>>, <<4>>, <<3, 4>>, <<5, 4>>, <<4, 5, 3>>, <<4, 3, 5>>}

TangentLoopData == UNION {{LoopData(<<>>, 0 - 1, 0 - 1, n), LoopData(<<"A">>, 0, 0, n), LoopData(<<"A", "B">>, 1, 0, n)} : n \in BOOLEAN}

UvMaps == {NULL, "A", "C"}

CallerSide == [reports |-> reports, r_looptangents |-> r_looptangents, solver_runs |-> tangent_hist.solver_runs]

TangentSingleEx ==
  /\ tangent_call.pc = "idle"
  /\ tangent_call.calls < MaxCalls
  /\ LET T == BKE_mesh_calc_loop_tangent_single_ex(
                CallerSide, me_eval.polys, ArrLen(me_eval.polys), "lnors", "luvs")
     IN /\ reports' = T.reports
        /\ r_looptangents' = T.r_looptangents
        /\ tangent_hist' = [tangent_hist EXCEPT
             !.solver_runs = T.solver_runs,
             !.last = [@ EXCEPT !.fn = "single_ex", !.uvmap = "", !.reports = Len(reports),
                                !.tangents = r_looptangents, !.runs = tangent_hist.solver_runs]]
  /\ tangent_call' = [tangent_call EXCEPT !.calls = @ + 1, !.fn = "single_ex"]
  /\ UNCHANGED <<me_eval, task_pool, face_as_quad_map, coarse_mesh, cacheVars, meshVars, looseVars, elemVars>>

TangentSingle(uvmap) ==
  /\ tangent_call.pc = "idle"
  /\ tangent_call.calls < MaxCalls
  /\ LET T == BKE_mesh_calc_loop_tangent_single(CallerSide, me_eval, uvmap)
     IN /\ reports' = T.reports
        /\ r_looptangents' = T.r_looptangents
        /\ tangent_hist' = [tangent_hist EXCEPT
             !.solver_runs = T.solver_runs,
             !.last = [@ EXCEPT !.fn = "single", !.uvmap = uvmap, !.reports = Len(reports),
                                !.tangents = r_looptangents, !.runs = tangent_hist.solver_runs]]
  /\ tangent_call' = [tangent_call EXCEPT !.calls = @ + 1, !.fn = "single"]
  /\ UNCHANGED <<me_eval, task_pool, face_as_quad_map, coarse_mesh, cacheVars, meshVars, looseVars, elemVars>>

InitTangentSingle ==
  /\ me_eval \in {TangentMesh(sizes, ldata, FALSE) : sizes \in TangentSizes, ldata \in TangentLoopData}
  /\ tangent_call = TangentCallIdle
  /\ reports = <<>>
  /\ r_looptangents = [l \in 0..(me_eval.totloop - 1) |-> TangentOfCaller]
  /\ task_pool = TaskPoolNone
  /\ face_as_quad_map = NoQuadMap
  /\ tangent_hist = TangentHistZero
  /\ coarse_mesh = MeshPoints
  /\ CacheIdle
  /\ MeshIdle
  /\ LooseIdle
  /\ ElemIdle

NextTangentSingle ==
  \/ TangentSingleEx
  \/ \E uvmap \in UvMaps : TangentSingle(uvmap)

SpecTangentSingle == InitTangentSingle /\ [][NextTangentSingle]_vars

\* The mesh has a polygon of more than 4 corners.
HasNgon == \E p \in DOMAIN me_eval.polys : me_eval.polys[p].totloop > 4

\* The last call reported exactly the error report and did nothing else:
\* the solver did not run and the output array is as it was.
AbortedWith(report) ==
  /\ Len(reports) = tangent_hist.last.reports + 1
  /\ reports[Len(reports)] = report
  /\ tangent_hist.solver_runs = tangent_hist.last.runs
  /\ r_looptangents = tangent_hist.last.tangents

\* C14: a call of BKE_mesh_calc_loop_tangent_single_ex on a mesh with a
\* polygon of more than 4 corners, wherever it sits in the polygon array,
\* reports the error, does not run the solver and leaves every entry of the
\* output array as it was.
C14_NgonAbortsWithoutOutput ==
  (tangent_hist.last.fn = "single_ex" /\ HasNgon) => AbortedWith(RPT_UNSUPPORTED)

\* The pentagon is the second of three polygons and the call was made.
C14_Witness ==
  /\ tangent_hist.last.fn = "single_ex"
  /\ ArrLen(me_eval.polys) = 3
  /\ me_eval.polys[1].totloop = 5
  /\ Len(reports) = 1

\* The UV map the call names, or with no name the default UV layer, exists.
UvFound(uvmap) == IF uvmap = NULL THEN me_eval.ldata.uv # <<>> ELSE \E n \in 1..Len(me_eval.ldata.uv) : me_eval.ldata.uv[n] = uvmap

\* C15: a call of BKE_mesh_calc_loop_tangent_single whose UV map is not
\* found, or whose mesh has no loop normals, reports exactly one error, does
\* not run the solver and leaves the output array as it was; the error is
\* the UV one whenever the UV map is not found, loop normals or not.
C15_MissingLayerAbortsUvFirst ==
  tangent_hist.last.fn = "single" =>
    /\ ~UvFound(tangent_hist.last.uvmap) => AbortedWith(RPT_NO_UVMAP(tangent_hist.last.uvmap))
    /\ (UvFound(tangent_hist.last.uvmap) /\ ~me_eval.ldata.normal) => AbortedWith(RPT_NO_NORMALS)

\* Both layers are missing, the UV error was reported, and the output array
\* still holds the tangents an earlier call wrote.
C15_Witness ==
  /\ tangent_hist.last.fn = "single"
  /\ ~UvFound(tangent_hist.last.uvmap)
  /\ ~me_eval.ldata.normal
  /\ reports = <<RPT_NO_UVMAP(tangent_hist.last.uvmap)>>
  /\ \E l \in DOMAIN r_looptangents : r_looptangents[l].src = "luvs"

(***************************************************************************)
(* BKE_mesh_calc_loop_tangent_ex under a sequence of calls on one mesh,    *)
(* with loopdata and loopdata_out the loop layers of that mesh and the     *)
(* caller keeping its tangent mask from one call to the next.  The tasks   *)
(* of the pool run beside the calling thread from the moment they are      *)
(* pushed, one face of the solver's output at a step.                      *)
(***************************************************************************)

LayerSizes == {<<>>, <<3>>, <<4>>, <<3, 4>>, <<4, 3>>, <<4, 5>>}

LayerLoopData == {LoopData(<<>>, 0 - 1, 0 - 1, TRUE), LoopData(<<"A">>, 0, 0, TRUE), LoopData(<<"A", "B">>, 0, 1, TRUE)}

TangentRequests == {<<>>, <<"A">>, <<"B">>, <<"">>, <<"A", "B">>}

\* A pool holds at most one task for each name a tangent layer can have.
TaskIds == 1..Cardinality(UNION {Names(r) : r \in TangentRequests})

\* BKE_mesh_calc_loop_tangent_ex without its test of the masks: the layers
\* are allocated and the tasks scheduled at every call.
TangentEx_Begin_every_call(tangent_names, calc_active_tangent) ==
  /\ tangent_call.pc = "idle"
  /\ tangent_call.calls < MaxCalls
  /\ LET s0 == BKE_mesh_calc_loop_tangent_step_0(me_eval.ldata, calc_active_tangent, tangent_names)
         looptri_len == ArrLen(me_eval.looptri)
         mpoly_len == ArrLen(me_eval.polys)
         map == MapFacesToQuads(me_eval.polys, me_eval.looptri, 0, <<>>)
         called == [tangent_call EXCEPT !.calls = @ + 1, !.fn = "ex", !.s0 = s0,
                                        !.tangent_names = tangent_names,
                                        !.calc_active_tangent = calc_active_tangent]
     IN /\ tangent_hist' = [tangent_hist EXCEPT
                              !.writes = {},
                              !.last = [@ EXCEPT !.fn = "ex", !.ldata = me_eval.ldata,
                                                 !.mask = tangent_call.tangent_mask_curr_p]]
        /\ me_eval' = [me_eval EXCEPT !.ldata = AllocateTangentLayers(
                                        @, me_eval.totloop, tangent_names, s0)]
        /\ face_as_quad_map' = IF looptri_len # mpoly_len
                                 THEN [state |-> "allocated", map |-> Arr(map)]
                                 ELSE NoQuadMap
        /\ IF looptri_len # 0
             THEN /\ task_pool' = [state |-> "created", tasks |-> <<>>]
                  /\ tangent_call' = [called EXCEPT !.pc = "push", !.n = 0,
                       !.tangent_mask_curr = {},
                       !.num_face_as_quad_map = IF looptri_len # mpoly_len
                                                  THEN Len(map) ELSE looptri_len]
             ELSE /\ task_pool' = TaskPoolNone
                  /\ tangent_call' = [called EXCEPT !.pc = "free_map",
                       !.tangent_mask_curr = s0.tangent_mask]
  /\ UNCHANGED <<reports, r_looptangents, coarse_mesh, cacheVars, meshVars, looseVars, elemVars>>

TangentEx_Begin(tangent_names, calc_active_tangent) ==
  /\ tangent_call.pc = "idle"
  /\ tangent_call.calls < MaxCalls
  /\ LET s0 == BKE_mesh_calc_loop_tangent_step_0(me_eval.ldata, calc_active_tangent, tangent_names)
         tangent_mask_curr == tangent_call.tangent_mask_curr_p
         looptri_len == ArrLen(me_eval.looptri)
         mpoly_len == ArrLen(me_eval.polys)
         map == MapFacesToQuads(me_eval.polys, me_eval.looptri, 0, <<>>)
         called == [tangent_call EXCEPT !.calls = @ + 1, !.fn = "ex", !.s0 = s0,
                                        !.tangent_names = tangent_names,
                                        !.calc_active_tangent = calc_active_tangent]
         recompute == (tangent_mask_curr \cup s0.tangent_mask) # tangent_mask_curr
     IN /\ tangent_hist' = [tangent_hist EXCEPT
                              !.writes = IF recompute THEN {} ELSE @,
                              !.last = [@ EXCEPT !.fn = "ex", !.ldata = me_eval.ldata,
                                                 !.mask = tangent_mask_curr]]
        /\ IF recompute
             THEN /\ me_eval' = [me_eval EXCEPT !.ldata = AllocateTangentLayers(
                                                  @, me_eval.totloop, tangent_names, s0)]
                  /\ face_as_quad_map' = IF looptri_len # mpoly_len
                                           THEN [state |-> "allocated", map |-> Arr(map)]
                                           ELSE NoQuadMap
                  /\ IF looptri_len # 0
                       THEN /\ task_pool' = [state |-> "created", tasks |-> <<>>]
                            /\ tangent_call' = [called EXCEPT !.pc = "push", !.n = 0,
                                 !.tangent_mask_curr = {},
                                 !.num_face_as_quad_map = IF looptri_len # mpoly_len
                                                            THEN Len(map) ELSE looptri_len]
                       ELSE /\ task_pool' = TaskPoolNone
                            /\ tangent_call' = [called EXCEPT !.pc = "free_map",
                                 !.tangent_mask_curr = s0.tangent_mask]
             ELSE /\ tangent_call' = called
                  /\ UNCHANGED <<me_eval, face_as_quad_map, task_pool>>
  /\ UNCHANGED <<reports, r_looptangents, coarse_mesh, cacheVars, meshVars, looseVars, elemVars>>

SGLSLMeshToTangent_Task_first_layer(n, src, num_face_as_quad_map) == [n |-> n, tangent |-> 0, src |-> src, state |-> "pushed", face |-> 0, num_face_as_quad_map |-> num_face_as_quad_map]

\* data_array[n] as it is pushed: its source, its face count and its
\* destination, the data of the n-th tangent layer.
SGLSLMeshToTangent_Task(n, src, num_face_as_quad_map) == [n |-> n, tangent |-> n, src |-> src, state |-> "pushed", face |-> 0, num_face_as_quad_map |-> num_face_as_quad_map]

\* One turn of the loop over the tangent layers: the layer's source is
\* looked up and a task is pushed for it, or the layer is passed over.
TangentEx_Push ==
  /\ tangent_call.pc = "push"
  /\ tangent_call.n < Len(me_eval.ldata.tangent)
  /\ LET n == tangent_call.n
         name == me_eval.ldata.tangent[n + 1].name
         mloopuv == CustomData_get_layer_named_uv(me_eval.ldata, name)
         task(src) == SGLSLMeshToTangent_Task(n, src, tangent_call.num_face_as_quad_map)
     IN IF mloopuv = NULL
          THEN IF ~me_eval.orco
                 THEN /\ tangent_call' = [tangent_call EXCEPT !.n = n + 1]
                      /\ UNCHANGED task_pool
                 ELSE /\ tangent_call' = [tangent_call EXCEPT !.n = n + 1,
                           !.tangent_mask_curr = @ \cup DM_TANGENT_MASK_ORCO]
                      /\ task_pool' = [task_pool EXCEPT !.tasks = Append(@, task("orco"))]
          ELSE /\ tangent_call' = [tangent_call EXCEPT !.n = n + 1,
                    !.tangent_mask_curr = @ \cup {UvLayerN(me_eval.ldata, name)}]
               /\ task_pool' = [task_pool EXCEPT !.tasks = Append(@, task(mloopuv))]
  /\ UNCHANGED <<me_eval, reports, r_looptangents, face_as_quad_map, tangent_hist, coarse_mesh, cacheVars, meshVars, looseVars, elemVars>>

\* DM_calc_loop_tangents_thread: the solver of the task t sets the tangents
\* of its next face.
TangentTask_Run(t) ==
  /\ t \in 1..Len(task_pool.tasks)
  /\ task_pool.tasks[t].state # "done"
  /\ face_as_quad_map.state # "freed"   \* a freed map cannot be read
  /\ LET task == task_pool.tasks[t]
         mesh2tangent == [face_as_quad_map |-> face_as_quad_map,
                          num_face_as_quad_map |-> task.num_face_as_quad_map,
                          mpoly |-> me_eval.polys, looptri |-> me_eval.looptri, src |-> task.src]
         face_num == task.face
         last == face_num + 1 >= SGLSLMeshToTangent_GetNumFaces(mesh2tangent)
     IN /\ me_eval' = [me_eval EXCEPT !.ldata.tangent[task.tangent + 1].data =
                         SGLSLMeshToTangent_SetFace(mesh2tangent, @, face_num, 0)]
        /\ tangent_hist' = [tangent_hist EXCEPT
             !.writes = @ \cup {[task |-> t, layer |-> task.tangent, face |-> face_num, vert |-> v,
                                 loop |-> SGLSLMeshToTangent_GetLoop(mesh2tangent, face_num, v)] :
                                v \in 0..(SGLSLMeshToTangent_GetNumVerticesOfFace(mesh2tangent, face_num) - 1)},
             !.solver_runs = IF last THEN @ + 1 ELSE @]
        /\ task_pool' = [task_pool EXCEPT !.tasks[t] = [@ EXCEPT !.face = face_num + 1,
                           !.state = IF last THEN "done" ELSE "running"]]
  /\ UNCHANGED <<tangent_call, reports, r_looptangents, face_as_quad_map, coarse_mesh, cacheVars, meshVars, looseVars, elemVars>>

AllTasksDone == \A t \in 1..Len(task_pool.tasks) : task_pool.tasks[t].state = "done"

\* BLI_task_pool_work_and_wait returns when every pushed task has run; the
\* pool is freed.
TangentEx_WorkAndWait ==
  /\ tangent_call.pc = "push"
  /\ tangent_call.n = Len(me_eval.ldata.tangent)
  /\ AllTasksDone
  /\ task_pool' = [task_pool EXCEPT !.state = "freed"]
  /\ tangent_call' = [tangent_call EXCEPT !.pc = "free_map"]
  /\ UNCHANGED <<me_eval, reports, r_looptangents, face_as_quad_map, tangent_hist, coarse_mesh, cacheVars, meshVars, looseVars, elemVars>>

\* The quad map is freed, the mask is handed back and the active and render
\* tangent layers are set to the ones named as the active and render UV layer.
TangentEx_End ==
  /\ tangent_call.pc = "free_map"
  /\ face_as_quad_map' = IF face_as_quad_map.state = "allocated"
                           THEN [state |-> "freed", map |-> Arr(<<>>)]
                           ELSE face_as_quad_map
  /\ tangent_call' = [tangent_call EXCEPT !.pc = "idle",
                        !.tangent_mask_curr_p = tangent_call.tangent_mask_curr]
  /\ LET s0 == tangent_call.s0
         act == IF s0.act_uv_n # 0 - 1
                  THEN [me_eval.ldata EXCEPT !.tangent_active = TangentLayerN(me_eval.ldata, s0.act_uv_name)]
                  ELSE me_eval.ldata
     IN me_eval' = [me_eval EXCEPT !.ldata =
                      IF s0.ren_uv_n # 0 - 1
                        THEN [act EXCEPT !.tangent_render = TangentLayerN(me_eval.ldata, s0.ren_uv_name)]
                        ELSE act]
  /\ UNCHANGED <<reports, r_looptangents, task_pool, tangent_hist, coarse_mesh, cacheVars, meshVars, looseVars, elemVars>>

InitTangentLayers ==
  /\ me_eval \in {TangentMesh(sizes, ldata, orco) : sizes \in LayerSizes, ldata \in LayerLoopData, orco \in BOOLEAN}
  /\ tangent_call = TangentCallIdle
  /\ reports = <<>>
  /\ r_looptangents = Arr(<<>>)
  /\ task_pool = TaskPoolNone
  /\ face_as_quad_map = NoQuadMap
  /\ tangent_hist = TangentHistZero
  /\ coarse_mesh = MeshPoints
  /\ CacheIdle
  /\ MeshIdle
  /\ LooseIdle
  /\ ElemIdle

NextTangentLayers ==
  \/ \E tangent_names \in TangentRequests : \E calc_active_tangent \in BOOLEAN :
       TangentEx_Begin(tangent_names, calc_active_tangent)
  \/ TangentEx_Push
  \/ \E t \in TaskIds : TangentTask_Run(t)
  \/ TangentEx_WorkAndWait
  \/ TangentEx_End

SpecTangentLayers == InitTangentLayers /\ [][NextTangentLayers]_vars

\* The polygons of the mesh are triangles and quads, and there is one.
TrisAndQuads ==
  /\ DOMAIN me_eval.polys # {}
  /\ \A p \in DOMAIN me_eval.polys : me_eval.polys[p].totloop \in {3, 4}

NumQuads == Cardinality({p \in DOMAIN me_eval.polys : me_eval.polys[p].totloop = 4})

\* What the solver of the task t has written.
WritesOf(t) == {w \in tangent_hist.writes : w.task = t}

\* The corners of the face f of the task t: the pairs (corner, loop written).
CornersOf(t, f) == {<<w.vert, w.loop>> : w \in {x \in WritesOf(t) : x.face = f}}

\* C16: on a mesh of triangles and quads, a task that has run to its end
\* has set the tangents of one face per polygon, the face of a polygon
\* having the polygon's corners in the polygon's loop order (corner i is
\* loop loopstart + i); the faces are the triangles of the triangulation
\* less one per quad, and every loop was written by exactly one face.
C16_QuadsExposedAsOneFace ==
  \A t \in 1..Len(task_pool.tasks) :
    (TrisAndQuads /\ task_pool.tasks[t].state = "done") =>
      /\ Cardinality({w.face : w \in WritesOf(t)}) = ArrLen(me_eval.looptri) - NumQuads
      /\ \A p \in DOMAIN me_eval.polys :
           Cardinality({f \in {w.face : w \in WritesOf(t)} :
                          CornersOf(t, f) = {<<i, me_eval.polys[p].loopstart + i>> :
                                               i \in 0..(me_eval.polys[p].totloop - 1)}}) = 1
      /\ \A l \in 0..(me_eval.totloop - 1) :
           Cardinality({w \in WritesOf(t) : w.loop = l}) = 1

\* A task has run to its end on the mesh of a quad followed by a triangle.
C16_Witness ==
  /\ ArrLen(me_eval.polys) = 2
  /\ me_eval.polys[0].totloop = 4
  /\ me_eval.polys[1].totloop = 3
  /\ \E t \in 1..Len(task_pool.tasks) :
       /\ task_pool.tasks[t].state = "done"
       /\ CornersOf(t, 0) = {<<0, 0>>, <<1, 1>>, <<2, 2>>, <<3, 3>>}
       /\ CornersOf(t, 1) = {<<0, 4>>, <<1, 5>>, <<2, 6>>}

\* The tangent layer n has a source: a UV layer of its name, or orco.
HasSource(n) == me_eval.ldata.tangent[n + 1].name \in UvNames(me_eval.ldata) \/ me_eval.orco

\* The loop over the layers is over: every task of the call has been pushed.
AllPushed ==
  \/ tangent_call.pc = "push" /\ tangent_call.n = Len(me_eval.ldata.tangent)
  \/ tangent_call.pc = "free_map" /\ task_pool.state # "none"
  \/ tangent_call.pc = "idle" /\ task_pool.state = "freed"

\* The call has returned, or has freed the pool or the quad map.
Joined == task_pool.state = "freed" \/ face_as_quad_map.state = "freed" \/ tangent_call.pc \in {"idle", "free_map"}

\* C17: once the loop over the layers is over there is exactly one task for
\* every tangent layer that has a source and none for the others; whatever
\* a task writes goes to its own layer, so a layer holds only the tangents
\* of its own task or what it held before the call; and the pool is not
\* freed, the quad map is not freed and the call does not return while a
\* pushed task has not run to its end.
C17_ForkJoinPerLayer ==
  /\ AllPushed =>
       \A n \in 0..(Len(me_eval.ldata.tangent) - 1) :
         Cardinality({t \in 1..Len(task_pool.tasks) : task_pool.tasks[t].n = n}) = IF HasSource(n) THEN 1 ELSE 0
  /\ \A w \in tangent_hist.writes : w.layer = task_pool.tasks[w.task].n
  /\ \A t \in 1..Len(task_pool.tasks) : \A l \in 0..(me_eval.totloop - 1) :
       LET layer == me_eval.ldata.tangent[task_pool.tasks[t].n + 1]
       IN layer.data[l].src \in {task_pool.tasks[t].src, "default"}
  /\ Joined => AllTasksDone

\* Two tasks were pushed, one was run to its end while the other had not
\* started, and later the call returned with both layers written.
C17_Witness ==
  /\ tangent_call.pc = "idle"
  /\ task_pool.state = "freed"
  /\ Len(task_pool.tasks) = 2
  /\ me_eval.ldata.tangent[1].data[0].src = "A"
  /\ me_eval.ldata.tangent[2].data[0].src = "B"

\* The call stands at BLI_assert(tangent_mask_curr == tangent_mask): the loop
\* over the tangent layers of a mesh with triangles is through.
AtMaskAssert ==
  /\ tangent_call.pc = "push"
  /\ tangent_call.n = Len(me_eval.ldata.tangent)

\* C28 (as claimed): whenever a recomputation on a mesh with at least one
\* triangle has gone through its tangent layers, the mask of the layers a
\* task was pushed for equals the mask step_0 computed for this call.
C28_ScheduledMaskIsRequestedMask ==
  AtMaskAssert => tangent_call.tangent_mask_curr = tangent_call.s0.tangent_mask

\* The same for a first call on a mesh that has a UV layer or orco.
FirstCallScheduledMaskIsRequestedMask ==
  (AtMaskAssert /\ tangent_call.calls = 1
     /\ (Len(me_eval.ldata.uv) > 0 \/ me_eval.orco))
    => tangent_call.tangent_mask_curr = tangent_call.s0.tangent_mask

\* A step that is a call of BKE_mesh_calc_loop_tangent_ex.
TangentExCalled ==
  /\ tangent_call.pc = "idle"
  /\ tangent_call'.fn = "ex"
  /\ tangent_call'.calls = tangent_call.calls + 1

\* C29: a call of BKE_mesh_calc_loop_tangent_ex whose requested mask lies
\* within the caller's current mask adds no tangent layer, schedules no
\* task, leaves the current mask as it was and does not touch the active or
\* the render tangent layer index: the call is over in its step and the
\* mesh, the pool and the quad map are what they were.
C29_NothingNewIsNoOp ==
  [][(TangentExCalled /\ tangent_call'.s0.tangent_mask \subseteq tangent_call.tangent_mask_curr_p)
       => /\ me_eval' = me_eval
          /\ task_pool' = task_pool
          /\ face_as_quad_map' = face_as_quad_map
          /\ tangent_call'.pc = "idle"
          /\ tangent_call'.tangent_mask_curr_p = tangent_call.tangent_mask_curr_p]_vars

\* A call that asked for a layer whose bit the caller's mask held has
\* returned, on a mesh that has tangent layers and faces.
C29_Witness ==
  /\ tangent_call.pc = "idle"
  /\ tangent_call.calls >= 2
  /\ tangent_call.s0.tangent_mask # {}
  /\ tangent_call.s0.tangent_mask \subseteq tangent_hist.last.mask
  /\ tangent_call.tangent_mask_curr_p = tangent_hist.last.mask
  /\ Len(me_eval.ldata.tangent) > 0
  /\ DOMAIN me_eval.looptri # {}

(***************************************************************************)
(* The callbacks under a driver that does not keep to the order of the     *)
(* passes: it may leave the accumulation pre-pass before every corner and  *)
(* edge was visited, and so make the final corner and edge calls on        *)
(* vertices whose counter is still zero.                                   *)
(***************************************************************************)

Foreach_LeavePrePass ==
  /\ pc = "foreach"
  /\ driver.phase \in {"every_corner", "every_edge"}
  /\ foreach_context.vertex_every_corner # NULL
  /\ driver.i < NumLoops(coarse_mesh)
  /\ driver' = [driver EXCEPT !.phase = "single", !.i = 0]
  /\ UNCHANGED <<elemVars, tangentVars, coarse_mesh, looseVars, subdiv, pc, result, stats, foreach_context, ctx, hist, cacheVars>>

NextCallbacks ==
  \/ NextToMesh
  \/ Foreach_LeavePrePass

SpecCallbacks == InitToMesh /\ [][NextCallbacks]_vars

Evaluated == {v \in DOMAIN hist.final : hist.final[v].done}

\* The packed vectors the evaluator gave for the sample that finished v.
VertexDataOf(v) == BKE_subdiv_eval_vertex_data(hist.final[v].ptex, hist.final[v].u2, hist.final[v].v2)

\* C19: for every vertex a corner, edge or interior callback has finished,
\* with both layers the orco entry holds the first packed vector and the
\* cloth-orco entry the second; with the cloth-orco layer alone the
\* cloth-orco entry holds the evaluated vector and nothing was written
\* through the absent orco layer.
C19_OrcoWrittenToOwnLayer ==
  (ctx.subdiv_mesh # NULL /\ DOMAIN ctx.orco.val # {}) =>
    \A v \in Evaluated :
      /\ (ctx.orco.present /\ ctx.cloth_orco.present) =>
           /\ ctx.orco.val[v] = VertexDataOf(v)[1]
           /\ ctx.cloth_orco.val[v] = VertexDataOf(v)[2]
      /\ (~ctx.orco.present /\ ctx.cloth_orco.present) =>
           /\ ctx.cloth_orco.val[v] = VertexDataOf(v)[1]
           /\ ~ctx.orco.null_write

(***************************************************************************)
(* subdiv_vertex_data_interpolate on the vertex cache of one worker, at    *)
(* any (u, v) of the ptex face the cache stands for, the corners included. *)
(* The output mesh has the one vertex 0.                                   *)
(***************************************************************************)

\* u and v in halves: 0, 1/2 and 1.
Halves == {0, 1, 2}

VertexDataInterpolate(u2, v2) ==
  /\ tls_phase = "running"
  /\ tls.vertex_interpolation_initialized
  /\ LET M == subdiv_vertex_data_interpolate(MBundle, u2, v2, 0)
     IN /\ ctx' = M.ctx
        /\ hist' = [hist EXCEPT !.final[0] = Final("interpolate", 0, u2, v2)]
  /\ UNCHANGED <<elemVars, tangentVars, coarse_mesh, looseVars, cacheVars, subdiv, pc, result, stats, foreach_context, driver>>

InitWeights ==
  /\ coarse_mesh = MeshQuadTriPent
  /\ CacheIdle
  /\ subdiv \in [eval_begin_ok : {TRUE}, has_displacement_evaluator : {FALSE}, disp : {1}, has_origindex : {TRUE}, is_simple : {FALSE}, has_orco : {FALSE}, has_cloth_orco : {FALSE}]
  /\ pc = "foreach"
  /\ result = "unset"
  /\ stats = [begun |-> {}, ended |-> {}]
  /\ LET M == subdiv_mesh_topology_info([ctx |-> CtxZero, hist |-> HistZero, tls |-> TlsZero, heap |-> tls_heap, log |-> NoLogs], subdiv, 1)
     IN ctx = M.ctx /\ hist = M.hist
  /\ foreach_context = ForeachZero
  /\ driver = DriverIdle
  /\ LooseIdle
  /\ TangentIdle
  /\ ElemIdle

NextWeights ==
  \/ \E p \in DOMAIN coarse_mesh.polys : \E c \in Corners(coarse_mesh, p) :
       EnsureVertexInterpolation(p, c)
  \/ \E u2 \in Halves : \E v2 \in Halves : VertexDataInterpolate(u2, v2)

SpecWeights == InitWeights /\ [][NextWeights]_vars

\* The last interpolation was made at (u2, v2) and put the weight 1 on the
\* cache slot and the weight 0 on the three others.
WeightOneOn(u2, v2, slot) ==
  (hist.final[0].done /\ hist.final[0].u2 = u2 /\ hist.final[0].v2 = v2) =>
    \A i \in 0..3 : ctx.vdata[0].weights[i + 1] = IF i = slot THEN <<4, 4>> ELSE <<0, 4>>

====
